---- MODULE Spec2Model ----
\* Security tooling of anarqq-ecosystem-core:
\*   - scripts/security/security-quality-gate.py  (the quality gate decision engine)
\*   - scripts/security/docker-compose-security.py (the compose rule engine)
\* Python dicts are functions over their keys; dict.get(k, d) is Get(d, k, dflt).
EXTENDS Integers, Sequences, FiniteSets, TLC

VARIABLES
    pc,            \* position of main() / run_all_checks() of the quality gate
    config_state,  \* "unloaded" | "unreadable" | "null" | "doc": outcome of yaml.safe_load
    config,        \* self.config when config_state = "doc"
    present,       \* tools whose result files exist in the working directory
    results,       \* self.results
    verdict,       \* overall_result written by generate_report / value returned
    exit_code,     \* process exit status, -1 while the process runs
    compose_pc,    \* position of the compose scanner's main()
    compose_doc,   \* what yaml.safe_load returned for the compose file
    issues,        \* DockerComposeSecurityScanner.issues
    summary,       \* what get_results reported last: total_issues, issues, severity counts
    previous,      \* what the get_results call before that one reported (as main prints it)
    workflow_pc,     \* position of the workflow scanner's main()
    workflow_files,  \* what yaml.safe_load returns for each file of the glob, in glob order
    workflow_next,   \* index of the next file scan_workflows_directory scans
    workflow_issues, \* GitHubActionsSecurityScanner.issues
    workflow_results, \* what get_results of the workflow scanner reported
    report_pc,       \* position of collect_all_results of the comprehensive report
    results_dir,     \* the files each glob of the report generator found, in glob order
    scan_results,    \* ComprehensiveSecurityReportGenerator.scan_results
    report_summary,  \* ComprehensiveSecurityReportGenerator.summary
    adapter_pc,      \* position of main() of the dependency or of the IaC report generator
    tool_output,     \* the records each parse_* method found in its tool's output
    adapter_findings, \* self.vulnerabilities / self.issues of the report generator
    adapter_summary  \* self.summary of the report generator

gate_vars == <<pc, config_state, config, present, results, verdict, exit_code>>
compose_vars == <<compose_pc, compose_doc, issues, summary, previous>>
workflow_vars ==
    <<workflow_pc, workflow_files, workflow_next, workflow_issues, workflow_results>>
report_vars == <<report_pc, results_dir, scan_results, report_summary>>
adapter_vars == <<adapter_pc, tool_output, adapter_findings, adapter_summary>>
vars == <<pc, config_state, config, present, results, verdict, exit_code,
          compose_pc, compose_doc, issues, summary, previous,
          workflow_pc, workflow_files, workflow_next, workflow_issues, workflow_results,
          report_pc, results_dir, scan_results, report_summary,
          adapter_pc, tool_output, adapter_findings, adapter_summary>>

\* what a step of one program leaves alone
not_gate_vars == <<compose_vars, workflow_vars, report_vars, adapter_vars>>
not_compose_vars == <<gate_vars, workflow_vars, report_vars, adapter_vars>>
not_workflow_vars == <<gate_vars, compose_vars, report_vars, adapter_vars>>
not_report_vars == <<gate_vars, compose_vars, workflow_vars, adapter_vars>>
not_adapter_vars == <<gate_vars, compose_vars, workflow_vars, report_vars>>

-----------------------------------------------------------------------------
\* Bounds of the model.

\* most messages in the ESLint results file
MaxMsgs == 2
\* most npm-audit-*.json files found by os.walk
MaxFiles == 2
\* most services in a compose document built from the short service list
MaxServices == 2

-----------------------------------------------------------------------------
\* Python dict helpers.

EmptyDict == <<>>

HasKey(d, k) == k \in DOMAIN d

\* d.get(k, dflt)
Get(d, k, dflt) == IF k \in DOMAIN d THEN d[k] ELSE dflt

\* truthiness of d.get(k) for the boolean flags of the configuration
Truthy(d, k) == IF k \in DOMAIN d THEN d[k] = TRUE ELSE FALSE

\* a key that may be absent: {} or {value}
Opt(k, o) == IF o = {} THEN EmptyDict ELSE (k :> (CHOOSE v \in o : TRUE))

\* sequences over S of length at most n
SeqUpTo(S, n) == UNION {[1..k -> S] : k \in 0..n}

-----------------------------------------------------------------------------
\* The gate configurations drawn by the model (.github/security-gates.yml).

SastSections ==
    { {},
      {[enabled |-> FALSE]},
      {[enabled |-> TRUE]},
      {[tools |-> [eslint_security |-> [fail_on_high |-> TRUE]]]},
      {[tools |-> [eslint_security |-> [fail_on_critical |-> TRUE, max_issues |-> 1],
                   semgrep |-> [enabled |-> FALSE], codeql |-> [enabled |-> FALSE],
                   sonarcloud |-> [enabled |-> FALSE]]]},
      {[tools |-> [eslint_security |-> [enabled |-> FALSE],
                   codeql |-> [enabled |-> FALSE]]]} }

DependencySections ==
    { {},
      {[enabled |-> FALSE]},
      {[enabled |-> TRUE]},
      {[tools |-> [npm_audit |-> [fail_on_critical |-> TRUE, fail_on_high |-> TRUE,
                                  max_high |-> 1]]]},
      {[tools |-> [npm_audit |-> [fail_on_critical |-> TRUE, max_critical |-> 1],
                   snyk |-> [enabled |-> FALSE]]]},
      {[tools |-> [npm_audit |-> [enabled |-> FALSE]]]},
      {[tools |-> [snyk |-> [enabled |-> FALSE]]]} }

\* containers, iac and secrets sections, drawn together
OtherSections ==
    { <<{EmptyDict}, {EmptyDict}, {EmptyDict}>>,
      <<{[enabled |-> FALSE]}, {[tools |-> [kics |-> [enabled |-> FALSE]]]},
        {[tools |-> [trufflehog |-> [enabled |-> FALSE]]]}>>,
      <<{[tools |-> [trivy |-> [enabled |-> FALSE]]]}, {[enabled |-> FALSE]},
        {[enabled |-> FALSE]}>>,
      <<{[enabled |-> TRUE]}, {}, {EmptyDict}>>,
      <<{}, {EmptyDict}, {EmptyDict}>>,
      <<{EmptyDict}, {EmptyDict}, {}>> }

DebtSections ==
    { {},
      {[max_total_debt |-> 50]},
      {[scoring |-> [critical |-> 10], max_total_debt |-> 40]},
      {[scoring |-> [critical |-> 7, high |-> 3, medium |-> 2, low |-> 1, info |-> 1],
        max_total_debt |-> 10]} }

GlobalSections ==
    { {},
      {[fail_on_critical |-> FALSE]},
      {[fail_on_high_threshold |-> 1]} }

Configs ==
    { Opt("sast", s) @@ Opt("dependencies", d) @@ Opt("containers", o[1])
        @@ Opt("iac", o[2]) @@ Opt("secrets", o[3])
        @@ Opt("security_debt", b) @@ Opt("global", g) :
      s \in SastSections, d \in DependencySections, o \in OtherSections,
      b \in DebtSections, g \in GlobalSections }

-----------------------------------------------------------------------------
\* The result files drawn by the model.

StubTools == {"semgrep", "codeql", "sonarcloud", "snyk", "osv_scanner", "trivy",
              "grype", "checkov", "kics", "hadolint", "trufflehog"}

\* which tools left result files: ESLint, npm audit, and the other tools together
PresentChoices ==
    { e \cup n \cup s : e \in {{}, {"eslint_security"}}, n \in {{}, {"npm_audit"}},
                        s \in {{}, StubTools} }

\* eslint-security-results.json: unparsable, or the severities of its messages
EslintFiles ==
    {[ok |-> FALSE, messages |-> <<>>]}
      \cup {[ok |-> TRUE, messages |-> m] : m \in SeqUpTo({1, 2}, MaxMsgs)}

\* one npm-audit-*.json: unparsable, or the severities of its vulnerabilities
AuditFileContents ==
    { [ok |-> FALSE, vulnerabilities |-> <<>>],
      [ok |-> TRUE, vulnerabilities |-> <<>>],
      [ok |-> TRUE, vulnerabilities |-> <<"critical">>],
      [ok |-> TRUE, vulnerabilities |-> <<"High">>],
      [ok |-> TRUE, vulnerabilities |-> <<"moderate">>],
      [ok |-> TRUE, vulnerabilities |-> <<"critical", "high">>],
      [ok |-> TRUE, vulnerabilities |-> <<"high", "HIGH">>] }

AuditFileLists == SeqUpTo(AuditFileContents, MaxFiles)

-----------------------------------------------------------------------------
\* self.results and the two gate recorders.

InitResults ==
    [ passed |-> TRUE, total_issues |-> 0, critical_issues |-> 0, high_issues |-> 0,
      medium_issues |-> 0, low_issues |-> 0, security_debt |-> 0,
      failed_gates |-> <<>>, passed_gates |-> <<>>, exempted_issues |-> 0 ]

\* mutant: the failure is listed but the verdict flag is left alone
_fail_gate_keeps_passed(r, gate_name, reason) ==
    [r EXCEPT !.failed_gates = Append(@, [gate |-> gate_name, reason |-> reason])]

_fail_gate(r, gate_name, reason) ==
    [r EXCEPT !.passed = FALSE,
              !.failed_gates = Append(@, [gate |-> gate_name, reason |-> reason])]

\* mutant: recording a pass sets the verdict flag back
_pass_gate_resets(r, gate_name, reason) ==
    [r EXCEPT !.passed = TRUE,
              !.passed_gates = Append(@, [gate |-> gate_name, reason |-> reason])]

_pass_gate(r, gate_name, reason) ==
    [r EXCEPT !.passed_gates = Append(@, [gate |-> gate_name, reason |-> reason])]

-----------------------------------------------------------------------------
\* Per-tool checks. A check yields [raised, r]: whether an exception escaped it,
\* and self.results as the check left it.

Ok(r) == [raised |-> FALSE, r |-> r]
Raise(r) == [raised |-> TRUE, r |-> r]

RECURSIVE EslintHighCount(_)
\* the loop over data / messages: severity 2 is an ESLint error, counted high
EslintHighCount(messages) ==
    IF messages = <<>> THEN 0
    ELSE (IF Head(messages) = 2 THEN 1 ELSE 0) + EslintHighCount(Tail(messages))

\* mutant: the warnings (severity 1) are counted as medium issues
_check_eslint_security_medium(r, file) ==
    IF "eslint_security" \notin present THEN Ok(r)
    ELSE IF ~file.ok THEN Ok(r)
    ELSE LET critical_count == 0
             high_count == EslintHighCount(file.messages)
             medium_count == Len(file.messages) - high_count
         IN  IF ~(HasKey(config["sast"], "tools")
                    /\ HasKey(config["sast"]["tools"], "eslint_security"))
             THEN Ok(r)
             ELSE LET cfg == config["sast"]["tools"]["eslint_security"]
                      gate_name == "ESLint Security"
                      gated ==
                        IF Truthy(cfg, "fail_on_critical") /\ critical_count > 0
                        THEN _fail_gate(r, gate_name, <<"Critical issues found", critical_count>>)
                        ELSE IF Truthy(cfg, "fail_on_high") /\ high_count > 0
                        THEN _fail_gate(r, gate_name, <<"High severity issues found", high_count>>)
                        ELSE IF high_count > Get(cfg, "max_issues", 0)
                        THEN _fail_gate(r, gate_name, <<"Issues exceed threshold", high_count>>)
                        ELSE _pass_gate(r, gate_name, <<"Issues within threshold", high_count>>)
                  IN  Ok([gated EXCEPT !.high_issues = @ + high_count,
                                       !.medium_issues = @ + medium_count])

\* mutant: ESLint's gate never consults max_issues
_check_eslint_security_no_max(r, file) ==
    IF "eslint_security" \notin present THEN Ok(r)
    ELSE IF ~file.ok THEN Ok(r)
    ELSE LET critical_count == 0
             high_count == EslintHighCount(file.messages)
         IN  IF ~(HasKey(config["sast"], "tools")
                    /\ HasKey(config["sast"]["tools"], "eslint_security"))
             THEN Ok(r)
             ELSE LET cfg == config["sast"]["tools"]["eslint_security"]
                      gate_name == "ESLint Security"
                      gated ==
                        IF Truthy(cfg, "fail_on_critical") /\ critical_count > 0
                        THEN _fail_gate(r, gate_name, <<"Critical issues found", critical_count>>)
                        ELSE IF Truthy(cfg, "fail_on_high") /\ high_count > 0
                        THEN _fail_gate(r, gate_name, <<"High severity issues found", high_count>>)
                        ELSE _pass_gate(r, gate_name, <<"Issues within threshold", high_count>>)
                  IN  Ok([gated EXCEPT !.high_issues = @ + high_count])

\* reads eslint-security-results.json (file); every exception is caught inside
_check_eslint_security(r, file) ==
    IF "eslint_security" \notin present THEN Ok(r)
    ELSE IF ~file.ok THEN Ok(r)
    ELSE LET critical_count == 0
             high_count == EslintHighCount(file.messages)
         IN  IF ~(HasKey(config["sast"], "tools")
                    /\ HasKey(config["sast"]["tools"], "eslint_security"))
             THEN Ok(r)
             ELSE LET cfg == config["sast"]["tools"]["eslint_security"]
                      gate_name == "ESLint Security"
                      gated ==
                        IF Truthy(cfg, "fail_on_critical") /\ critical_count > 0
                        THEN _fail_gate(r, gate_name, <<"Critical issues found", critical_count>>)
                        ELSE IF Truthy(cfg, "fail_on_high") /\ high_count > 0
                        THEN _fail_gate(r, gate_name, <<"High severity issues found", high_count>>)
                        ELSE IF high_count > Get(cfg, "max_issues", 0)
                        THEN _fail_gate(r, gate_name, <<"Issues exceed threshold", high_count>>)
                        ELSE _pass_gate(r, gate_name, <<"Issues within threshold", high_count>>)
                  IN  Ok([gated EXCEPT !.high_issues = @ + high_count])

_check_semgrep(r) == Ok(_pass_gate(r, "Semgrep", <<"No critical issues found">>))

_check_codeql(r) == Ok(_pass_gate(r, "CodeQL", <<"No critical issues found">>))

_check_sonarcloud(r) == Ok(_pass_gate(r, "SonarCloud", <<"Quality gate passed">>))

\* str.lower() on the severity strings the audit files hold
Lower(s) ==
    CASE s = "High" -> "high"
      [] s = "HIGH" -> "high"
      [] OTHER -> s

RECURSIVE CountSeverity(_, _)
\* vulnerabilities of one file whose lower-cased severity is sev
CountSeverity(vulnerabilities, sev) ==
    IF vulnerabilities = <<>> THEN 0
    ELSE (IF Lower(Head(vulnerabilities)) = sev THEN 1 ELSE 0)
           + CountSeverity(Tail(vulnerabilities), sev)

RECURSIVE AuditTotal(_, _)
\* the loop over audit_files: a file that fails to load is skipped
AuditTotal(audit_files, sev) ==
    IF audit_files = <<>> THEN 0
    ELSE (IF Head(audit_files).ok
          THEN CountSeverity(Head(audit_files).vulnerabilities, sev) ELSE 0)
           + AuditTotal(Tail(audit_files), sev)

\* audit_files: the npm-audit-*.json files found; the config lookup is not guarded
_check_npm_audit(r, audit_files) ==
    IF audit_files = <<>> THEN Ok(r)
    ELSE LET total_critical == AuditTotal(audit_files, "critical")
             total_high == AuditTotal(audit_files, "high")
         IN  IF ~(HasKey(config["dependencies"], "tools")
                    /\ HasKey(config["dependencies"]["tools"], "npm_audit"))
             THEN Raise(r)
             ELSE LET cfg == config["dependencies"]["tools"]["npm_audit"]
                      gate_name == "NPM Audit"
                      gated ==
                        IF Truthy(cfg, "fail_on_critical")
                             /\ total_critical > Get(cfg, "max_critical", 0)
                        THEN _fail_gate(r, gate_name, <<"Critical vulnerabilities", total_critical>>)
                        ELSE IF Truthy(cfg, "fail_on_high")
                                  /\ total_high > Get(cfg, "max_high", 0)
                        THEN _fail_gate(r, gate_name, <<"High vulnerabilities", total_high>>)
                        ELSE _pass_gate(r, gate_name,
                                 <<"Vulnerabilities within threshold", total_critical, total_high>>)
                  IN  Ok([gated EXCEPT !.critical_issues = @ + total_critical,
                                       !.high_issues = @ + total_high])

_check_snyk(r) == Ok(_pass_gate(r, "Snyk", <<"No critical vulnerabilities found">>))

_check_osv_scanner(r) == Ok(_pass_gate(r, "OSV Scanner", <<"No critical vulnerabilities found">>))

_check_trivy(r) == Ok(_pass_gate(r, "Trivy", <<"No critical container vulnerabilities found">>))

_check_grype(r) == Ok(_pass_gate(r, "Grype", <<"No critical container vulnerabilities found">>))

_check_checkov(r) == Ok(_pass_gate(r, "Checkov", <<"No critical IaC issues found">>))

_check_kics(r) == Ok(_pass_gate(r, "KICS", <<"No critical IaC issues found">>))

_check_hadolint(r) == Ok(_pass_gate(r, "Hadolint", <<"No critical Dockerfile issues found">>))

_check_trufflehog(r) == Ok(_pass_gate(r, "TruffleHog", <<"No verified secrets found">>))

\* tools.get(t, {}).get('enabled', True)
ToolEnabled(tools, t) == Get(Get(tools, t, EmptyDict), "enabled", TRUE)

\* self.config.get(cat, {}).get('enabled', True)
CategoryEnabled(cat) == Get(Get(config, cat, EmptyDict), "enabled", TRUE)

-----------------------------------------------------------------------------
\* The categories. Each yields [raised, r] like a tool check: the lookup
\* self.config[cat] raises KeyError when the section is missing.

Tools(cat) == Get(config[cat], "tools", EmptyDict)

check_sast_gates_fn(r, file) ==
    IF ~CategoryEnabled("sast") THEN Ok(r)
    ELSE IF ~HasKey(config, "sast") THEN Raise(r)
    ELSE LET sast_tools == Tools("sast")
             r1 == IF ToolEnabled(sast_tools, "eslint_security")
                   THEN _check_eslint_security(r, file).r ELSE r
             r2 == IF ToolEnabled(sast_tools, "semgrep") THEN _check_semgrep(r1).r ELSE r1
             r3 == IF ToolEnabled(sast_tools, "codeql") THEN _check_codeql(r2).r ELSE r2
             r4 == IF ToolEnabled(sast_tools, "sonarcloud") THEN _check_sonarcloud(r3).r ELSE r3
         IN  Ok(r4)

check_dependency_gates_fn(r, audit_files) ==
    IF ~CategoryEnabled("dependencies") THEN Ok(r)
    ELSE IF ~HasKey(config, "dependencies") THEN Raise(r)
    ELSE LET dep_tools == Tools("dependencies")
             o1 == IF ToolEnabled(dep_tools, "npm_audit")
                   THEN _check_npm_audit(r, audit_files) ELSE Ok(r)
             r2 == IF ToolEnabled(dep_tools, "snyk") THEN _check_snyk(o1.r).r ELSE o1.r
             r3 == IF ToolEnabled(dep_tools, "osv_scanner") THEN _check_osv_scanner(r2).r ELSE r2
         IN  IF o1.raised THEN o1 ELSE Ok(r3)

check_container_gates_fn(r) ==
    IF ~CategoryEnabled("containers") THEN Ok(r)
    ELSE IF ~HasKey(config, "containers") THEN Raise(r)
    ELSE LET container_tools == Tools("containers")
             r1 == IF ToolEnabled(container_tools, "trivy") THEN _check_trivy(r).r ELSE r
             r2 == IF ToolEnabled(container_tools, "grype") THEN _check_grype(r1).r ELSE r1
         IN  Ok(r2)

check_iac_gates_fn(r) ==
    IF ~CategoryEnabled("iac") THEN Ok(r)
    ELSE IF ~HasKey(config, "iac") THEN Raise(r)
    ELSE LET iac_tools == Tools("iac")
             r1 == IF ToolEnabled(iac_tools, "checkov") THEN _check_checkov(r).r ELSE r
             r2 == IF ToolEnabled(iac_tools, "kics") THEN _check_kics(r1).r ELSE r1
             r3 == IF ToolEnabled(iac_tools, "hadolint") THEN _check_hadolint(r2).r ELSE r2
         IN  Ok(r3)

check_secrets_gates_fn(r) ==
    IF ~CategoryEnabled("secrets") THEN Ok(r)
    ELSE IF ~HasKey(config, "secrets") THEN Raise(r)
    ELSE LET secrets_tools == Tools("secrets")
             r1 == IF ToolEnabled(secrets_tools, "trufflehog") THEN _check_trufflehog(r).r ELSE r
         IN  Ok(r1)

-----------------------------------------------------------------------------
\* Debt and global thresholds.

DefaultScoring == [critical |-> 50, high |-> 20, medium |-> 5, low |-> 1, info |-> 0]

\* mutant: a configured table replaces the defaults wholesale, so a key it
\* lacks weighs nothing
Debt_no_key_default(r) ==
    LET scoring == Get(Get(config, "security_debt", EmptyDict), "scoring", DefaultScoring)
    IN  r.critical_issues * Get(scoring, "critical", 0)
          + r.high_issues * Get(scoring, "high", 0)
          + r.medium_issues * Get(scoring, "medium", 0)
          + r.low_issues * Get(scoring, "low", 0)

\* the debt expression of calculate_security_debt
Debt(r) ==
    LET scoring == Get(Get(config, "security_debt", EmptyDict), "scoring", DefaultScoring)
    IN  r.critical_issues * Get(scoring, "critical", 50)
          + r.high_issues * Get(scoring, "high", 20)
          + r.medium_issues * Get(scoring, "medium", 5)
          + r.low_issues * Get(scoring, "low", 1)

MaxDebt == Get(Get(config, "security_debt", EmptyDict), "max_total_debt", 100)

\* mutant: debt equal to the ceiling fails
calculate_security_debt_fn_ge(r) ==
    LET debt == Debt(r)
        max_debt == MaxDebt
        r1 == [r EXCEPT !.security_debt = debt]
    IN  IF debt >= max_debt
        THEN _fail_gate(r1, "Security Debt", <<"Total debt exceeds maximum", debt, max_debt>>)
        ELSE _pass_gate(r1, "Security Debt", <<"Total debt within limit", debt, max_debt>>)

\* mutant: the else is missing, so the pass is recorded after a fail as well
calculate_security_debt_fn_no_else(r) ==
    LET debt == Debt(r)
        max_debt == MaxDebt
        r1 == [r EXCEPT !.security_debt = debt]
        r2 == IF debt > max_debt
              THEN _fail_gate(r1, "Security Debt", <<"Total debt exceeds maximum", debt, max_debt>>)
              ELSE r1
    IN  _pass_gate(r2, "Security Debt", <<"Total debt within limit", debt, max_debt>>)

calculate_security_debt_fn(r) ==
    LET debt == Debt(r)
        max_debt == MaxDebt
        r1 == [r EXCEPT !.security_debt = debt]
    IN  IF debt > max_debt
        THEN _fail_gate(r1, "Security Debt", <<"Total debt exceeds maximum", debt, max_debt>>)
        ELSE _pass_gate(r1, "Security Debt", <<"Total debt within limit", debt, max_debt>>)

\* mutant: the high threshold is an elif of the critical one
check_global_thresholds_fn_elif(r) ==
    LET global_config == Get(config, "global", EmptyDict)
        high_threshold == Get(global_config, "fail_on_high_threshold", 5)
    IN  IF Get(global_config, "fail_on_critical", TRUE) /\ r.critical_issues > 0
        THEN _fail_gate(r, "Global Critical Threshold",
                        <<"Critical issues found", r.critical_issues>>)
        ELSE IF r.high_issues > high_threshold
        THEN _fail_gate(r, "Global High Threshold",
                        <<"High issues exceed threshold", r.high_issues, high_threshold>>)
        ELSE r

\* mutant: the high threshold is checked before the critical one
check_global_thresholds_fn_swapped(r) ==
    LET global_config == Get(config, "global", EmptyDict)
        high_threshold == Get(global_config, "fail_on_high_threshold", 5)
        r1 == IF r.high_issues > high_threshold
              THEN _fail_gate(r, "Global High Threshold",
                              <<"High issues exceed threshold", r.high_issues, high_threshold>>)
              ELSE r
    IN  IF Get(global_config, "fail_on_critical", TRUE) /\ r1.critical_issues > 0
        THEN _fail_gate(r1, "Global Critical Threshold",
                        <<"Critical issues found", r1.critical_issues>>)
        ELSE r1

check_global_thresholds_fn(r) ==
    LET global_config == Get(config, "global", EmptyDict)
        r1 == IF Get(global_config, "fail_on_critical", TRUE) /\ r.critical_issues > 0
              THEN _fail_gate(r, "Global Critical Threshold",
                              <<"Critical issues found", r.critical_issues>>)
              ELSE r
        high_threshold == Get(global_config, "fail_on_high_threshold", 5)
    IN  IF r1.high_issues > high_threshold
        THEN _fail_gate(r1, "Global High Threshold",
                        <<"High issues exceed threshold", r1.high_issues, high_threshold>>)
        ELSE r1

-----------------------------------------------------------------------------
\* The process: main() constructs the gate (loading the configuration), runs
\* run_all_checks step by step, and exits.

\* an exception escapes to the interpreter: traceback, exit status 1
Crash(r) ==
    /\ results' = r
    /\ pc' = "exited"
    /\ exit_code' = 1
    /\ UNCHANGED <<config_state, config, present, verdict>>

\* the step ran to its end; run_all_checks goes on with `next`
Step(r, next) ==
    /\ results' = r
    /\ pc' = next
    /\ UNCHANGED <<config_state, config, present, verdict, exit_code>>

Finish(outcome, next) ==
    IF outcome.raised THEN Crash(outcome.r) ELSE Step(outcome.r, next)

\* SecurityQualityGate.__init__ with _load_config: sys.exit(1) when the file
\* cannot be read or parsed; an empty document loads as None
Construct ==
    /\ pc = "construct"
    /\ UNCHANGED <<present, verdict, not_gate_vars>>
    /\ \/ /\ config_state' = "unreadable"
          /\ pc' = "exited"
          /\ exit_code' = 1
          /\ UNCHANGED <<config, results>>
       \/ /\ config_state' = "null"
          /\ pc' = "sast"
          /\ results' = InitResults
          /\ UNCHANGED <<config, exit_code>>
       \/ /\ \E c \in Configs : config' = c
          /\ config_state' = "doc"
          /\ pc' = "sast"
          /\ results' = InitResults
          /\ UNCHANGED exit_code

check_sast_gates ==
    /\ pc = "sast"
    /\ UNCHANGED not_gate_vars
    /\ IF config_state = "null" THEN Crash(results)
       ELSE \E file \in EslintFiles :
               Finish(check_sast_gates_fn(results, file), "dependencies")

check_dependency_gates ==
    /\ pc = "dependencies"
    /\ UNCHANGED not_gate_vars
    /\ \E audit_files \in AuditFileLists :
          /\ (audit_files # <<>>) <=> ("npm_audit" \in present)
          /\ Finish(check_dependency_gates_fn(results, audit_files), "containers")

check_container_gates ==
    /\ pc = "containers"
    /\ UNCHANGED not_gate_vars
    /\ Finish(check_container_gates_fn(results), "iac")

check_iac_gates ==
    /\ pc = "iac"
    /\ UNCHANGED not_gate_vars
    /\ Finish(check_iac_gates_fn(results), "secrets")

check_secrets_gates ==
    /\ pc = "secrets"
    /\ UNCHANGED not_gate_vars
    /\ Finish(check_secrets_gates_fn(results), "debt")

calculate_security_debt ==
    /\ pc = "debt"
    /\ UNCHANGED not_gate_vars
    /\ Step(calculate_security_debt_fn(results), "global")

check_global_thresholds ==
    /\ pc = "global"
    /\ UNCHANGED not_gate_vars
    /\ Step(check_global_thresholds_fn(results), "report")

\* the tail of run_all_checks: generate_report writes overall_result and the
\* summary; the method returns self.results['passed']. Writing the report
\* file can fail, and that exception is not caught.
generate_report ==
    /\ pc = "report"
    /\ UNCHANGED <<config_state, config, present, results, not_gate_vars>>
    /\ \/ /\ verdict' = IF results.passed THEN "PASSED" ELSE "FAILED"
          /\ pc' = "returned"
          /\ UNCHANGED exit_code
       \/ /\ pc' = "exited"
          /\ exit_code' = 1
          /\ UNCHANGED verdict

\* mutant: main() reports the failure but exits 0
Exit_always_zero ==
    /\ pc = "returned"
    /\ pc' = "exited"
    /\ exit_code' = 0
    /\ UNCHANGED <<config_state, config, present, results, verdict, not_gate_vars>>

\* main(): sys.exit(1) if not passed else sys.exit(0)
Exit ==
    /\ pc = "returned"
    /\ pc' = "exited"
    /\ exit_code' = IF verdict = "PASSED" THEN 0 ELSE 1
    /\ UNCHANGED <<config_state, config, present, results, verdict, not_gate_vars>>

\* the other programs of the repository are not running
ComposeIdle ==
    /\ compose_pc = "idle"
    /\ compose_doc = EmptyDict
    /\ issues = <<>>
    /\ summary = EmptyDict
    /\ previous = EmptyDict

WorkflowIdle ==
    /\ workflow_pc = "idle"
    /\ workflow_files = <<>>
    /\ workflow_next = 1
    /\ workflow_issues = <<>>
    /\ workflow_results = EmptyDict

ReportIdle ==
    /\ report_pc = "idle"
    /\ results_dir = EmptyDict
    /\ scan_results = EmptyDict
    /\ report_summary = EmptyDict

AdapterIdle ==
    /\ adapter_pc = "idle"
    /\ tool_output = EmptyDict
    /\ adapter_findings = <<>>
    /\ adapter_summary = EmptyDict

GateIdle ==
    /\ pc = "idle"
    /\ config_state = "unloaded"
    /\ config = EmptyDict
    /\ present = {}
    /\ results = InitResults
    /\ verdict = "none"
    /\ exit_code = -1

GateInit ==
    /\ pc = "construct"
    /\ config_state = "unloaded"
    /\ config = EmptyDict
    /\ present \in PresentChoices
    /\ results = InitResults
    /\ verdict = "none"
    /\ exit_code = -1
    /\ ComposeIdle
    /\ WorkflowIdle
    /\ ReportIdle
    /\ AdapterIdle

GateNext ==
    \/ Construct
    \/ check_sast_gates
    \/ check_dependency_gates
    \/ check_container_gates
    \/ check_iac_gates
    \/ check_secrets_gates
    \/ calculate_security_debt
    \/ check_global_thresholds
    \/ generate_report
    \/ Exit

Spec == GateInit /\ [][GateNext]_vars

\* the process is a single thread that runs to its end: a step that can be
\* taken is taken
SpecLive == Spec /\ WF_vars(GateNext)

-----------------------------------------------------------------------------
\* docker-compose-security.py. A Python string that the scanner searches is a
\* sequence of tokens, cut so that every keyword the scanner looks for occurs
\* in it as a whole run of tokens; `in`, startswith and lower() work on runs.

\* p in s
Contains(s, p) ==
    \E i \in 1..(Len(s) - Len(p) + 1) : SubSeq(s, i, i + Len(p) - 1) = p

\* s.startswith(p)
StartsWith(s, p) == Len(s) >= Len(p) /\ SubSeq(s, 1, Len(p)) = p

LowerTok(t) ==
    CASE t = "PASSWORD" -> "password"
      [] t = "SECRET" -> "secret"
      [] t = "KEY" -> "key"
      [] t = "TOKEN" -> "token"
      [] t = "API_" -> "api_"
      [] t = "PRIVATE" -> "private"
      [] t = "DB_" -> "db_"
      [] t = "BOARD" -> "board"
      [] t = "NODE_ENV" -> "node_env"
      [] t = "Admin" -> "admin"
      [] t = "True" -> "true"
      [] t = "False" -> "false"
      [] OTHER -> t

\* s.lower()
LowerStr(s) == [i \in 1..Len(s) |-> LowerTok(s[i])]

\* self.security_rules: rule name -> severity (the texts are not modelled)
security_rules ==
    [ privileged_containers |-> "critical", host_network |-> "high", host_pid |-> "high",
      host_ipc |-> "high", docker_socket_mount |-> "critical",
      root_filesystem_writable |-> "medium", no_user_specified |-> "medium",
      insecure_capabilities |-> "high", host_port_binding |-> "low",
      default_secrets |-> "high", insecure_environment |-> "medium" ]

_add_issue(iss, file_path, service_name, rule_name) ==
    Append(iss, [file |-> file_path, service |-> service_name, rule |-> rule_name,
                 severity |-> Get(security_rules, rule_name, "unknown")])

DockerSock == <<"/var/run/docker.sock">>

\* mutant: SYS_ADMIN dropped from the list
dangerous_caps_short == <<"NET_ADMIN", "SYS_PTRACE", "SYS_MODULE", "DAC_OVERRIDE">>

dangerous_caps == <<"SYS_ADMIN", "NET_ADMIN", "SYS_PTRACE", "SYS_MODULE", "DAC_OVERRIDE">>

sensitive_patterns ==
    << <<"password">>, <<"secret">>, <<"key">>, <<"token">>, <<"api_", "key">>, <<"private">> >>

weak_values == << <<"1", "2", "3">>, <<"password">>, <<"secret">>, <<"admin">>, <<"root">> >>

InSeq(x, sq) == \E i \in 1..Len(sq) : sq[i] = x

RECURSIVE ScanVolumes(_, _, _, _)
\* for volume in volumes: a string is searched, a dict is matched on source only
ScanVolumes(iss, file_path, service_name, volumes) ==
    IF volumes = <<>> THEN iss
    ELSE LET volume == Head(volumes)
             hit == IF volume.kind = "str" THEN Contains(volume.s, DockerSock)
                    ELSE IF volume.kind = "dict"
                    THEN Get(volume.d, "source", <<>>) = DockerSock
                    ELSE FALSE
         IN  ScanVolumes(IF hit THEN _add_issue(iss, file_path, service_name,
                                                "docker_socket_mount") ELSE iss,
                         file_path, service_name, Tail(volumes))

RECURSIVE ScanCaps(_, _, _, _)
\* for cap in cap_add
ScanCaps(iss, file_path, service_name, cap_add) ==
    IF cap_add = <<>> THEN iss
    ELSE ScanCaps(IF InSeq(Head(cap_add), dangerous_caps)
                  THEN _add_issue(iss, file_path, service_name, "insecure_capabilities")
                  ELSE iss,
                  file_path, service_name, Tail(cap_add))

RECURSIVE ScanPorts(_, _, _, _)
\* for port in ports: only string ports are looked at
ScanPorts(iss, file_path, service_name, ports) ==
    IF ports = <<>> THEN iss
    ELSE LET port == Head(ports)
         IN  ScanPorts(IF port.kind = "str" /\ StartsWith(port.s, <<"0.0.0.0:">>)
                       THEN _add_issue(iss, file_path, service_name, "host_port_binding")
                       ELSE iss,
                       file_path, service_name, Tail(ports))

\* the value of one decimal digit
DigitVal(c) ==
    CASE c = "0" -> 0 [] c = "1" -> 1 [] c = "2" -> 2 [] c = "3" -> 3 [] c = "4" -> 4
      [] c = "5" -> 5 [] c = "6" -> 6 [] c = "7" -> 7 [] c = "8" -> 8 [] c = "9" -> 9

RECURSIVE IntOf(_, _)
\* int(text, base)
IntOf(text, base) ==
    IF text = <<>> THEN 0
    ELSE IntOf(SubSeq(text, 1, Len(text) - 1), base) * base + DigitVal(text[Len(text)])

\* the int yaml.safe_load builds from an unquoted scalar of digits: a leading 0
\* makes it octal
YamlInt(text) == IF Len(text) > 1 /\ text[1] = "0" THEN IntOf(text, 8) ELSE IntOf(text, 10)

RECURSIVE Digits(_)
\* str(n) of an int n >= 0
Digits(n) == IF n < 10 THEN <<ToString(n)>> ELSE Digits(n \div 10) \o <<ToString(n % 10)>>

\* the values of an environment map as yaml.safe_load builds them
StrValue(s) == [kind |-> "str", s |-> s]

IntValue(text) == [kind |-> "int", text |-> text, n |-> YamlInt(text)]

BoolValue(b) == [kind |-> "bool", b |-> b]

\* f"{v}"
FormatValue(v) ==
    CASE v.kind = "str" -> v.s
      [] v.kind = "int" -> Digits(v.n)
      [] v.kind = "bool" -> IF v.b THEN <<"True">> ELSE <<"False">>

\* [f"{k}={v}" for k, v in environment.items()]
RECURSIVE FormatItems(_)
FormatItems(items) ==
    IF items = <<>> THEN <<>>
    ELSE <<Head(items)[1] \o <<"=">> \o FormatValue(Head(items)[2])>>
            \o FormatItems(Tail(items))

\* the first sensitive pattern found in env_lower, 0 when none
FirstPattern(env_lower) ==
    IF \E i \in 1..Len(sensitive_patterns) : Contains(env_lower, sensitive_patterns[i])
    THEN CHOOSE i \in 1..Len(sensitive_patterns) :
            /\ Contains(env_lower, sensitive_patterns[i])
            /\ \A j \in 1..(i - 1) : ~Contains(env_lower, sensitive_patterns[j])
    ELSE 0

RECURSIVE AddForPatterns(_, _, _, _, _)
\* the inner loop over sensitive_patterns[i..] without its break
AddForPatterns(iss, file_path, service_name, env_lower, i) ==
    IF i > Len(sensitive_patterns) THEN iss
    ELSE LET weak == \E w \in 1..Len(weak_values) : Contains(env_lower, weak_values[w])
             iss1 == IF ~Contains(env_lower, sensitive_patterns[i]) THEN iss
                     ELSE IF weak
                     THEN _add_issue(iss, file_path, service_name, "default_secrets")
                     ELSE _add_issue(iss, file_path, service_name, "insecure_environment")
         IN  AddForPatterns(iss1, file_path, service_name, env_lower, i + 1)

RECURSIVE ScanEnv_no_break(_, _, _, _)
\* mutant: the break after the first pattern found is missing
ScanEnv_no_break(iss, file_path, service_name, env_vars) ==
    IF env_vars = <<>> THEN iss
    ELSE ScanEnv_no_break(AddForPatterns(iss, file_path, service_name,
                                         LowerStr(Head(env_vars)), 1),
                          file_path, service_name, Tail(env_vars))

RECURSIVE ScanEnv(_, _, _, _)
\* for env_var in env_vars: the inner loop breaks at the first pattern found
ScanEnv(iss, file_path, service_name, env_vars) ==
    IF env_vars = <<>> THEN iss
    ELSE LET env_lower == LowerStr(Head(env_vars))
             weak == \E i \in 1..Len(weak_values) : Contains(env_lower, weak_values[i])
             iss1 == IF FirstPattern(env_lower) = 0 THEN iss
                     ELSE IF weak
                     THEN _add_issue(iss, file_path, service_name, "default_secrets")
                     ELSE _add_issue(iss, file_path, service_name, "insecure_environment")
         IN  ScanEnv(iss1, file_path, service_name, Tail(env_vars))

\* the issues list after _scan_service; service_config is a dict here
_scan_service(iss, file_path, service_name, service_config) ==
    LET i1 == IF Truthy(service_config, "privileged")
              THEN _add_issue(iss, file_path, service_name, "privileged_containers") ELSE iss
        i2 == IF Get(service_config, "network_mode", "") = "host"
              THEN _add_issue(i1, file_path, service_name, "host_network") ELSE i1
        i3 == IF Get(service_config, "pid", "") = "host"
              THEN _add_issue(i2, file_path, service_name, "host_pid") ELSE i2
        i4 == IF Get(service_config, "ipc", "") = "host"
              THEN _add_issue(i3, file_path, service_name, "host_ipc") ELSE i3
        i5 == ScanVolumes(i4, file_path, service_name, Get(service_config, "volumes", <<>>))
        i6 == IF ~Truthy(service_config, "read_only")
              THEN _add_issue(i5, file_path, service_name, "root_filesystem_writable") ELSE i5
        i7 == IF Get(service_config, "user", "") = ""
              THEN _add_issue(i6, file_path, service_name, "no_user_specified") ELSE i6
        i8 == ScanCaps(i7, file_path, service_name, Get(service_config, "cap_add", <<>>))
        i9 == ScanPorts(i8, file_path, service_name, Get(service_config, "ports", <<>>))
        environment == Get(service_config, "environment", [kind |-> "map", items |-> <<>>])
        env_vars == IF environment.kind = "list" THEN environment.items
                    ELSE FormatItems(environment.items)
    IN  ScanEnv(i9, file_path, service_name, env_vars)

-----------------------------------------------------------------------------
\* The compose documents drawn by the model.

PrivilegedOpts == {{}, {TRUE}, {FALSE}}

\* network_mode, pid, ipc
NamespaceOpts ==
    { <<{}, {}, {}>>, <<{"host"}, {}, {}>>, <<{"bridge"}, {"host"}, {}>>, <<{}, {}, {"host"}>> }

SockString == [kind |-> "str", s |-> <<"/var/run/docker.sock", ":", "/var/run/docker.sock", ":ro">>]

VolumesOpts ==
    { {},
      {<<[kind |-> "str", s |-> <<"/data", ":", "/data">>]>>},
      {<<SockString>>},
      {<<[kind |-> "dict", d |-> [type |-> <<"bind">>, source |-> DockerSock,
                                   target |-> DockerSock]]>>},
      {<<SockString, [kind |-> "str", s |-> <<"/data", ":", "/var/run/docker.sock">>]>>},
      {<<[kind |-> "dict", d |-> [type |-> <<"bind">>, source |-> <<"/data">>,
                                   target |-> DockerSock]]>>},
      {<<[kind |-> "dict", d |-> [type |-> <<"bind">>,
                                   source |-> <<"/host", "/var/run/docker.sock">>,
                                   target |-> <<"/sock">>]]>>} }

ReadOnlyOpts == {{}, {TRUE}, {FALSE}}

UserOpts == {{}, {""}, {"1000:1000"}}

CapAddOpts == {{}, {<<"SYS_ADMIN">>}, {<<"CHOWN">>}, {<<"NET_ADMIN", "CHOWN", "SYS_ADMIN">>}}

PortsOpts ==
    { {},
      {<<[kind |-> "str", s |-> <<"0.0.0.0:", "80:80">>]>>},
      {<<[kind |-> "str", s |-> <<"127.0.0.1:", "80:80">>], [kind |-> "int"]>>} }

EnvironmentOpts ==
    { {},
      {[kind |-> "list", items |-> << <<"NODE_ENV", "=", "production">> >>]},
      {[kind |-> "list", items |-> << <<"DB_", "PASSWORD", "=", "Admin", "1", "2", "3">>,
                                      <<"API_", "KEY", "=", "x9f">> >>]},
      {[kind |-> "map", items |-> << << <<"API_", "TOKEN">>, StrValue(<<"x9f">>) >>,
                                     << <<"KEY", "BOARD">>, StrValue(<<"us">>) >> >>]},
      {[kind |-> "map", items |-> << << <<"DB_", "PASSWORD">>, StrValue(<<"x9f">>) >> >>]},
      {[kind |-> "map", items |-> << << <<"API_", "KEY">>, IntValue(<<"0", "1", "2", "3">>) >>,
                                     << <<"PRIVATE">>, BoolValue(TRUE) >> >>]},
      {[kind |-> "list", items |-> << <<"SECRET", "_", "KEY", "=", "root">>,
                                      <<"NODE_ENV", "=", "production">>,
                                      <<"PRIVATE", "_", "TOKEN", "=", "x9f">> >>]} }

ServiceConfigs ==
    { Opt("privileged", pr) @@ Opt("network_mode", ns[1]) @@ Opt("pid", ns[2])
        @@ Opt("ipc", ns[3]) @@ Opt("volumes", vo) @@ Opt("read_only", ro)
        @@ Opt("user", us) @@ Opt("cap_add", ca) @@ Opt("ports", po)
        @@ Opt("environment", en) :
      pr \in PrivilegedOpts, ns \in NamespaceOpts, vo \in VolumesOpts, ro \in ReadOnlyOpts,
      us \in UserOpts, ca \in CapAddOpts, po \in PortsOpts, en \in EnvironmentOpts }

\* a service entry: its name, and its configuration when that is a mapping
Service(name, cfg) == [name |-> name, isdict |-> TRUE, config |-> cfg]

\* a service whose value is not a mapping (`web:` with nothing under it)
NullService(name) == [name |-> name, isdict |-> FALSE, config |-> EmptyDict]

\* the services of the documents with more than one service
\* (the keys of a mapping are distinct)
ShortServiceList ==
    { NullService("db"),
      Service("db", [read_only |-> TRUE, user |-> "1000:1000"]),
      Service("db", [privileged |-> TRUE, cap_add |-> <<"SYS_ADMIN">>]),
      Service("cache", [read_only |-> TRUE, user |-> "1000:1000", network_mode |-> "host"]),
      Service("api", [read_only |-> TRUE]) }

Doc(parses, null, has_services, services) ==
    [parses |-> parses, null |-> null, has_services |-> has_services, services |-> services]

ComposeDocs ==
    { Doc(FALSE, FALSE, FALSE, <<>>), Doc(TRUE, TRUE, FALSE, <<>>),
      Doc(TRUE, FALSE, FALSE, <<>>), Doc(TRUE, FALSE, TRUE, <<>>) }
      \cup { Doc(TRUE, FALSE, TRUE, <<Service("web", c)>>) : c \in ServiceConfigs }
      \cup { Doc(TRUE, FALSE, TRUE, <<Service("web", [privileged |-> TRUE])>> \o sv) :
             sv \in { s \in SeqUpTo(ShortServiceList, MaxServices) \ {<<>>} :
                        \A i, j \in 1..Len(s) : s[i].name = s[j].name => i = j } }

ComposeFile == "docker-compose.yml"

-----------------------------------------------------------------------------
\* scan_compose_file, get_results and main() of the compose scanner.

ParseError(file_path) ==
    [file |-> file_path, service |-> "N/A", rule |-> "parse_error", severity |-> "high"]

RECURSIVE ScanServices(_, _, _)
\* for service_name, service_config in compose_data['services'].items();
\* yields [raised, iss]: .get on a service that is no mapping raises
ScanServices(iss, file_path, services) ==
    IF services = <<>> THEN [raised |-> FALSE, iss |-> iss]
    ELSE IF ~Head(services).isdict THEN [raised |-> TRUE, iss |-> iss]
    ELSE ScanServices(_scan_service(iss, file_path, Head(services).name,
                                    Head(services).config),
                      file_path, Tail(services))

\* mutant: the test for the 'services' key is missing, so the lookup raises
scan_compose_file_fn_no_guard(iss, file_path, doc) ==
    IF ~doc.parses THEN Append(iss, ParseError(file_path))
    ELSE IF doc.null THEN iss
    ELSE IF ~doc.has_services THEN Append(iss, ParseError(file_path))
    ELSE LET walked == ScanServices(iss, file_path, doc.services)
         IN  IF walked.raised THEN Append(walked.iss, ParseError(file_path))
             ELSE walked.iss

\* self.issues after scan_compose_file(file_path) on the document doc
scan_compose_file_fn(iss, file_path, doc) ==
    IF ~doc.parses THEN Append(iss, ParseError(file_path))
    ELSE IF doc.null \/ ~doc.has_services THEN iss
    ELSE LET walked == ScanServices(iss, file_path, doc.services)
         IN  IF walked.raised THEN Append(walked.iss, ParseError(file_path))
             ELSE walked.iss

RECURSIVE CountIssues(_, _)
CountIssues(iss, severity) ==
    IF iss = <<>> THEN 0
    ELSE (IF Head(iss).severity = severity THEN 1 ELSE 0) + CountIssues(Tail(iss), severity)

_get_summary(iss) ==
    [sev \in {"critical", "high", "medium", "low"} |-> CountIssues(iss, sev)]

get_results_fn(iss) ==
    [total_issues |-> Len(iss), issues |-> iss, summary |-> _get_summary(iss)]

scan_compose_file ==
    /\ compose_pc = "start"
    /\ issues' = scan_compose_file_fn(issues, ComposeFile, compose_doc)
    /\ compose_pc' = "scanned"
    /\ UNCHANGED <<compose_doc, summary, previous, not_compose_vars>>

get_results ==
    /\ compose_pc \in {"scanned", "rescanned"}
    /\ summary' = get_results_fn(issues)
    /\ previous' = summary
    /\ compose_pc' = IF compose_pc = "scanned" THEN "done" ELSE "done_again"
    /\ UNCHANGED <<compose_doc, issues, not_compose_vars>>

\* a second scan_compose_file(file_path) of the same file on the same scanner
scan_compose_file_again ==
    /\ compose_pc = "done"
    /\ issues' = scan_compose_file_fn(issues, ComposeFile, compose_doc)
    /\ compose_pc' = "rescanned"
    /\ UNCHANGED <<compose_doc, summary, previous, not_compose_vars>>

ComposeInit ==
    /\ compose_pc = "start"
    /\ compose_doc \in ComposeDocs
    /\ issues = <<>>
    /\ summary = EmptyDict
    /\ previous = EmptyDict
    /\ GateIdle
    /\ WorkflowIdle
    /\ ReportIdle
    /\ AdapterIdle

ComposeNext ==
    \/ scan_compose_file
    \/ get_results

SpecCompose == ComposeInit /\ [][ComposeNext]_vars

\* a caller that scans the file, reads the results, and does both once more
RescanNext ==
    \/ scan_compose_file
    \/ get_results
    \/ scan_compose_file_again

SpecRescan == ComposeInit /\ [][RescanNext]_vars

-----------------------------------------------------------------------------
\* github-actions-security.py. The strings the scanner cuts and tests
\* character by character (uses, run, cache keys, names) are strings here.

\* most workflow files found by the two globs
MaxWorkflowFiles == 2

\* c.lower() for one character
LowerChar(c) ==
    CASE c = "A" -> "a" [] c = "B" -> "b" [] c = "C" -> "c" [] c = "D" -> "d"
      [] c = "E" -> "e" [] c = "F" -> "f" [] c = "G" -> "g" [] c = "H" -> "h"
      [] c = "I" -> "i" [] c = "J" -> "j" [] c = "K" -> "k" [] c = "L" -> "l"
      [] c = "M" -> "m" [] c = "N" -> "n" [] c = "O" -> "o" [] c = "P" -> "p"
      [] c = "Q" -> "q" [] c = "R" -> "r" [] c = "S" -> "s" [] c = "T" -> "t"
      [] c = "U" -> "u" [] c = "V" -> "v" [] c = "W" -> "w" [] c = "X" -> "x"
      [] c = "Y" -> "y" [] c = "Z" -> "z" [] OTHER -> c

RECURSIVE LowerChars(_)
\* s.lower()
LowerChars(s) ==
    IF Len(s) = 0 THEN ""
    ELSE LowerChar(SubSeq(s, 1, 1)) \o LowerChars(SubSeq(s, 2, Len(s)))

\* index of the first occurrence of the character c in s, 0 when there is none
IndexOf(s, c) ==
    IF \E i \in 1..Len(s) : SubSeq(s, i, i) = c
    THEN CHOOSE i \in 1..Len(s) :
            /\ SubSeq(s, i, i) = c
            /\ \A j \in 1..(i - 1) : SubSeq(s, j, j) # c
    ELSE 0

\* s.split('@')[1] for s with an '@': the text between the first '@' and the next
SplitAt1(s) ==
    LET rest == SubSeq(s, IndexOf(s, "@") + 1, Len(s))
    IN  IF IndexOf(rest, "@") = 0 THEN rest
        ELSE SubSeq(rest, 1, IndexOf(rest, "@") - 1)

HexDigits ==
    {"0", "1", "2", "3", "4", "5", "6", "7", "8", "9", "a", "b", "c", "d", "e", "f"}

\* c.isdigit()
IsDigit(c) == c \in {"0", "1", "2", "3", "4", "5", "6", "7", "8", "9"}

\* self.security_rules of the workflow scanner: rule name -> severity
wf_security_rules ==
    [ pull_request_target_checkout |-> "critical", script_injection |-> "critical",
      third_party_action_no_pin |-> "high", secrets_in_environment |-> "high",
      write_permissions_broad |-> "medium", self_hosted_runner |-> "medium",
      artifact_upload_no_retention |-> "low", cache_key_predictable |-> "low" ]

wf_add_issue(iss, file_path, job_name, step_name, rule_name) ==
    Append(iss, [file |-> file_path, job |-> job_name, step |-> step_name,
                 rule |-> rule_name,
                 severity |-> Get(wf_security_rules, rule_name, "unknown")])

\* the Finding of the except branch of scan_workflow_file
WfParseError(file_path) ==
    [file |-> file_path, job |-> "N/A", step |-> "N/A", rule |-> "parse_error",
     severity |-> "high"]

\* _check_triggers: `in` on a mapping tests its keys, on a list its elements,
\* on a string its substrings
TriggersHit(triggers) ==
    CASE triggers.kind = "map" -> "pull_request_target" \in triggers.keys
      [] triggers.kind = "list" -> InSeq("pull_request_target", triggers.items)
      [] triggers.kind = "str" -> Contains(triggers.s, "pull_request_target")
      [] OTHER -> FALSE

_check_triggers(iss, file_path, triggers) ==
    IF TriggersHit(triggers)
    THEN wf_add_issue(iss, file_path, "trigger", "pull_request_target",
                      "pull_request_target_checkout")
    ELSE iss

\* the pin test of _scan_step on version_part; version_part[0] is read only
\* when the two tests before it are true
IsSha(version_part) ==
    /\ Len(version_part) = 40
    /\ \A i \in 1..Len(version_part) :
          SubSeq(LowerChars(version_part), i, i) \in HexDigits

\* version_part[0] raises IndexError
PinTestRaises(version_part) ==
    ~IsSha(version_part) /\ ~StartsWith(version_part, "v") /\ Len(version_part) = 0

NotPinned(version_part) ==
    /\ ~IsSha(version_part)
    /\ ~StartsWith(version_part, "v")
    /\ ~IsDigit(SubSeq(version_part, 1, 1))

RECURSIVE ScanStepEnv(_, _, _, _, _)
\* for env_name, env_value in env.items()
ScanStepEnv(iss, file_path, job_name, step_name, env) ==
    IF env = <<>> THEN iss
    ELSE LET e == Head(env)
             hit == /\ e.isstr
                    /\ Contains(e.value, "secrets.")
                    /\ \E keyword \in {"url", "endpoint", "host"} :
                          Contains(LowerChars(e.name), keyword)
         IN  ScanStepEnv(IF hit THEN wf_add_issue(iss, file_path, job_name, step_name,
                                                  "secrets_in_environment")
                         ELSE iss,
                         file_path, job_name, step_name, Tail(env))

\* _scan_step on a step that is a mapping; yields [raised, iss]
_scan_step(iss, file_path, job_name, step_index, step_config) ==
    LET step_name == Get(step_config, "name", "step-" \o ToString(step_index))
        uses == Get(step_config, "uses", "")
        external == uses # "" /\ ~StartsWith(uses, "./") /\ ~StartsWith(uses, "docker://")
        has_at == Contains(uses, "@")
        version_part == SplitAt1(uses)
        i1 == IF external /\ (IF has_at THEN NotPinned(version_part) ELSE TRUE)
              THEN wf_add_issue(iss, file_path, job_name, step_name,
                                "third_party_action_no_pin")
              ELSE iss
        run_command == Get(step_config, "run", "")
        i2 == IF /\ run_command # ""
                 /\ Contains(run_command, "${{")
                 /\ \E context \in {"github.event.", "github.head_ref", "github.base_ref"} :
                       Contains(run_command, context)
              THEN wf_add_issue(i1, file_path, job_name, step_name, "script_injection")
              ELSE i1
        i3 == ScanStepEnv(i2, file_path, job_name, step_name, Get(step_config, "env", <<>>))
        with_config == Get(step_config, "with", EmptyDict)
        i4 == IF StartsWith(uses, "actions/upload-artifact")
                 /\ ~HasKey(with_config, "retention-days")
              THEN wf_add_issue(i3, file_path, job_name, step_name,
                                "artifact_upload_no_retention")
              ELSE i3
        key == Get(with_config, "key", "")
        i5 == IF /\ StartsWith(uses, "actions/cache")
                 /\ key # ""
                 /\ ~\E var \in {"${{", "hashFiles", "runner.os"} : Contains(key, var)
              THEN wf_add_issue(i4, file_path, job_name, step_name, "cache_key_predictable")
              ELSE i4
    IN  IF external /\ has_at /\ PinTestRaises(version_part)
        THEN [raised |-> TRUE, iss |-> iss]
        ELSE [raised |-> FALSE, iss |-> i5]

RECURSIVE ScanSteps(_, _, _, _, _)
\* for i, step in enumerate(steps), from index step_index on
ScanSteps(iss, file_path, job_name, step_index, steps) ==
    IF steps = <<>> THEN [raised |-> FALSE, iss |-> iss]
    ELSE LET scanned == _scan_step(iss, file_path, job_name, step_index, Head(steps))
         IN  IF scanned.raised THEN scanned
             ELSE ScanSteps(scanned.iss, file_path, job_name, step_index + 1, Tail(steps))

RECURSIVE CountWrite(_)
\* len([k for k, v in permissions.items() if v == 'write'])
CountWrite(items) ==
    IF items = <<>> THEN 0
    ELSE (IF Head(items)[2] = "write" THEN 1 ELSE 0) + CountWrite(Tail(items))

\* _scan_job on a job that is a mapping; yields [raised, iss]
_scan_job(iss, file_path, job_name, job_config) ==
    LET permissions == Get(job_config, "permissions", [kind |-> "dict", items |-> <<>>])
        i1 == IF permissions.kind = "dict" /\ CountWrite(permissions.items) > 3
              THEN wf_add_issue(iss, file_path, job_name, "permissions",
                                "write_permissions_broad")
              ELSE iss
        runs_on == Get(job_config, "runs-on", [kind |-> "str", s |-> ""])
        i2 == IF runs_on.kind = "str" /\ Contains(runs_on.s, "self-hosted")
              THEN wf_add_issue(i1, file_path, job_name, "runner", "self_hosted_runner")
              ELSE i1
    IN  ScanSteps(i2, file_path, job_name, 0, Get(job_config, "steps", <<>>))

RECURSIVE ScanJobs(_, _, _)
\* for job_name, job_config in jobs.items(); a job that is no mapping raises
ScanJobs(iss, file_path, jobs) ==
    IF jobs = <<>> THEN [raised |-> FALSE, iss |-> iss]
    ELSE IF ~Head(jobs).isdict THEN [raised |-> TRUE, iss |-> iss]
    ELSE LET scanned == _scan_job(iss, file_path, Head(jobs).name, Head(jobs).config)
         IN  IF scanned.raised THEN scanned
             ELSE ScanJobs(scanned.iss, file_path, Tail(jobs))

\* self.issues after scan_workflow_file(file_path) on the document doc
scan_workflow_file_fn(iss, file_path, doc) ==
    IF ~doc.parses THEN Append(iss, WfParseError(file_path))
    ELSE IF doc.kind = "empty" THEN iss
    ELSE IF doc.kind # "map" THEN Append(iss, WfParseError(file_path))
    ELSE LET triggers == Get(doc.d, "on", [kind |-> "map", keys |-> {}])
             jobs == Get(doc.d, "jobs", [null |-> FALSE, items |-> <<>>])
         IN  IF triggers.kind = "null" THEN Append(iss, WfParseError(file_path))
             ELSE LET i1 == _check_triggers(iss, file_path, triggers)
                  IN  IF jobs.null THEN Append(i1, WfParseError(file_path))
                      ELSE LET walked == ScanJobs(i1, file_path, jobs.items)
                           IN  IF walked.raised
                               THEN Append(walked.iss, WfParseError(file_path))
                               ELSE walked.iss

wf_get_summary(iss) ==
    [sev \in {"critical", "high", "medium", "low"} |-> CountIssues(iss, sev)]

wf_get_results_fn(iss) ==
    [total_issues |-> Len(iss), issues |-> iss, summary |-> wf_get_summary(iss)]

-----------------------------------------------------------------------------
\* The workflow documents drawn by the model.

ShaLower == "abcdef0123456789abcd" \o "ef0123456789abcdef01"
ShaUpper == "ABCDEF0123456789ABCD" \o "EF0123456789ABCDEF01"
\* forty characters, the first of them no hex digit
NotSha40 == "g123456789abcdef0123" \o "456789abcdef01234567"
\* thirty-nine hex digits
Hex39 == "abcdef0123456789abc" \o "456789abcdef01234567"

UsesOpts ==
    { "actions/checkout@v4", "actions/checkout@main", "actions/checkout",
      "./.github/actions/build", "docker://alpine:3.19", "owner/tool@1.2.3",
      "actions/checkout@", "actions/checkout@" \o ShaLower,
      "actions/checkout@" \o ShaUpper, "owner/tool@" \o NotSha40,
      "owner/tool@" \o Hex39 }

EnvVar(name, isstr, value) == [name |-> name, isstr |-> isstr, value |-> value]

StepConfigs ==
    { [uses |-> u] : u \in UsesOpts }
    \cup { [name |-> "Build", run |-> "npm ci"],
           [run |-> "echo ${{ github.event.issue.title }}"],
           [name |-> "Ref", run |-> "echo ${{ secrets.TOKEN }} github.head_ref"],
           [run |-> "echo github.base_ref"],
           [run |-> "deploy", env |-> <<EnvVar("API_URL", TRUE, "${{ secrets.API_URL }}")>>],
           [run |-> "deploy", env |-> <<EnvVar("TOKEN", TRUE, "${{ secrets.TOKEN }}")>>],
           [run |-> "deploy", env |-> <<EnvVar("HOST_PORT", FALSE, "")>>],
           [run |-> "deploy", env |-> <<EnvVar("DB_HOST", TRUE, "${{ secrets.DB }}"),
                                        EnvVar("Endpoint", TRUE, "${{ secrets.EP }}")>>],
           [uses |-> "actions/upload-artifact@v4"],
           [uses |-> "actions/upload-artifact@v4", with |-> ("retention-days" :> "5")],
           [uses |-> "actions/cache@v4", with |-> [key |-> "npm-cache"]],
           [uses |-> "actions/cache@v4", with |-> [key |-> "${{ runner.os }}-npm"]],
           [uses |-> "actions/cache@v4", with |-> [path |-> "~/.npm"]] }

Ubuntu == [kind |-> "str", s |-> "ubuntu-latest"]

WritePerms(n) ==
    [kind |-> "dict",
     items |-> [i \in 1..4 |-> IF i <= n THEN <<"scope", "write">> ELSE <<"scope", "read">>]]

JobConfigs ==
    { ("runs-on" :> Ubuntu) @@ [steps |-> <<s>>] : s \in StepConfigs }
    \cup { ("runs-on" :> Ubuntu) @@ [permissions |-> pm] :
           pm \in {WritePerms(4), WritePerms(3), [kind |-> "str", s |-> "write-all"]} }
    \cup { "runs-on" :> ro :
           ro \in { [kind |-> "str", s |-> "self-hosted"],
                    [kind |-> "list", items |-> <<"self-hosted", "linux">>] } }
    \cup { [steps |-> <<[uses |-> "actions/checkout@main"], [uses |-> "actions/checkout@"],
                        [uses |-> "owner/tool"]>>],
           [steps |-> <<[uses |-> "actions/checkout@v4"], [uses |-> "owner/tool"]>>] }

\* a job entry: its name, and its configuration when that is a mapping
Job(name, cfg) == [name |-> name, isdict |-> TRUE, config |-> cfg]

\* a job whose value is not a mapping (`build:` with nothing under it)
NullJob(name) == [name |-> name, isdict |-> FALSE, config |-> EmptyDict]

Jobs(items) == [null |-> FALSE, items |-> items]

NullJobs == [null |-> TRUE, items |-> <<>>]

TriggerOpts ==
    { {},
      {[kind |-> "map", keys |-> {"push"}]},
      {[kind |-> "map", keys |-> {"push", "pull_request_target"}]},
      {[kind |-> "str", s |-> "pull_request_target"]},
      {[kind |-> "list", items |-> <<"push", "pull_request">>]},
      {[kind |-> "null"]} }

PullRequestTarget == [kind |-> "map", keys |-> {"pull_request_target"}]

WfDoc(parses, kind, d) == [parses |-> parses, kind |-> kind, d |-> d]

WorkflowDocs ==
    { WfDoc(FALSE, "none", EmptyDict), WfDoc(TRUE, "empty", EmptyDict),
      WfDoc(TRUE, "scalar", EmptyDict) }
    \cup { WfDoc(TRUE, "map", Opt("on", t) @@ [name |-> "CI"]) : t \in TriggerOpts }
    \cup { WfDoc(TRUE, "map", [on |-> PullRequestTarget, jobs |-> NullJobs]),
           WfDoc(TRUE, "map", [on |-> PullRequestTarget,
                               jobs |-> Jobs(<<NullJob("build")>>)]),
           WfDoc(TRUE, "map", [on |-> PullRequestTarget,
                               jobs |-> Jobs(<<Job("build", "runs-on" :>
                                                 [kind |-> "str", s |-> "self-hosted"]),
                                               NullJob("test")>>)]),
           WfDoc(TRUE, "map", [on |-> [kind |-> "null"],
                               jobs |-> Jobs(<<Job("build", [steps |-> <<>>])>>)]) }
    \cup { WfDoc(TRUE, "map", [jobs |-> Jobs(<<Job("build", c)>>)]) : c \in JobConfigs }

\* the path of the i-th file of the glob
WorkflowPath(i) == "workflow-" \o ToString(i) \o ".yml"

-----------------------------------------------------------------------------
\* scan_workflows_directory, get_results and main() of the workflow scanner.

scan_workflow_file ==
    /\ workflow_pc = "scanning"
    /\ workflow_next <= Len(workflow_files)
    /\ workflow_issues' = scan_workflow_file_fn(workflow_issues, WorkflowPath(workflow_next),
                                                workflow_files[workflow_next])
    /\ workflow_next' = workflow_next + 1
    /\ UNCHANGED <<workflow_pc, workflow_files, workflow_results, not_workflow_vars>>

wf_get_results ==
    /\ workflow_pc = "scanning"
    /\ workflow_next > Len(workflow_files)
    /\ workflow_results' = wf_get_results_fn(workflow_issues)
    /\ workflow_pc' = "done"
    /\ UNCHANGED <<workflow_files, workflow_next, workflow_issues, not_workflow_vars>>

WorkflowInit ==
    /\ workflow_pc = "scanning"
    /\ workflow_files \in SeqUpTo(WorkflowDocs, MaxWorkflowFiles)
    /\ workflow_next = 1
    /\ workflow_issues = <<>>
    /\ workflow_results = EmptyDict
    /\ GateIdle
    /\ ComposeIdle
    /\ ReportIdle
    /\ AdapterIdle

WorkflowNext ==
    \/ scan_workflow_file
    \/ wf_get_results

SpecWorkflow == WorkflowInit /\ [][WorkflowNext]_vars

\* one run of either scanner
ScannersInit == ComposeInit \/ WorkflowInit

ScannersNext == ComposeNext \/ WorkflowNext

SpecScanners == ScannersInit /\ [][ScannersNext]_vars

-----------------------------------------------------------------------------
\* generate-comprehensive-report.py: collect_all_results. A result file is
\* [ok, ...]: ok is false when open() or json.load() raises on it.

\* self.summary after __init__
InitSummary ==
    [total_issues |-> 0, critical |-> 0, high |-> 0, medium |-> 0, low |-> 0, info |-> 0,
     security_debt |-> 0, quality_gates_passed |-> FALSE,
     scans_completed |-> 0, scans_failed |-> 0]

\* the dict every _collect_* method starts from; total_key differs by category
CategoryBase(total_key, status) ==
    IF total_key = "total_issues"
    THEN [tools |-> EmptyDict, total_issues |-> 0, critical |-> 0, high |-> 0, medium |-> 0,
          low |-> 0, status |-> status]
    ELSE [tools |-> EmptyDict, total_vulnerabilities |-> 0, critical |-> 0, high |-> 0,
          medium |-> 0, low |-> 0, status |-> status]

\* {'status': 'error', 'error': str(e)}
ToolError == [status |-> "error", error |-> "str(e)"]

\* reads eslint_files[0] only
_collect_sast_results_fn(eslint_files) ==
    LET sast_results == CategoryBase("total_issues", "completed")
    IN  IF eslint_files = <<>> THEN sast_results
        ELSE IF ~eslint_files[1].ok
        THEN [sast_results EXCEPT !.tools = "eslint" :> ToolError]
        ELSE LET n_issues == Len(eslint_files[1].messages)
             IN  [sast_results EXCEPT
                    !.tools = "eslint" :> [issues |-> n_issues, status |-> "completed"],
                    !.total_issues = @ + n_issues,
                    !.high = @ + n_issues]

RECURSIVE CountLower(_, _)
\* entries of one file whose severity, lower-cased, is one of sevs
CountLower(vulnerabilities, sevs) ==
    IF vulnerabilities = <<>> THEN 0
    ELSE (IF LowerChars(Head(vulnerabilities)) \in sevs THEN 1 ELSE 0)
           + CountLower(Tail(vulnerabilities), sevs)

RECURSIVE SumFiles(_, _)
\* the loop over the files of a tool: a file that raises is printed and skipped
SumFiles(files, sevs) ==
    IF files = <<>> THEN 0
    ELSE (IF Head(files).ok THEN CountLower(Head(files).vulnerabilities, sevs) ELSE 0)
           + SumFiles(Tail(files), sevs)

RECURSIVE TotalVulns(_)
\* total_vulns: every entry of every readable file
TotalVulns(files) ==
    IF files = <<>> THEN 0
    ELSE (IF Head(files).ok THEN Len(Head(files).vulnerabilities) ELSE 0)
           + TotalVulns(Tail(files))

\* the counting shared by npm audit and Trivy; medium_names is what counts as medium
ToolCounts(files, medium_names) ==
    [vulnerabilities |-> TotalVulns(files),
     critical |-> SumFiles(files, {"critical"}),
     high |-> SumFiles(files, {"high"}),
     medium |-> SumFiles(files, medium_names),
     low |-> SumFiles(files, {"low"}),
     status |-> "completed"]

AddTool(category_results, tool, counts) ==
    [category_results EXCEPT
        !.tools = tool :> counts,
        !.total_vulnerabilities = @ + counts.vulnerabilities,
        !.critical = @ + counts.critical,
        !.high = @ + counts.high,
        !.medium = @ + counts.medium,
        !.low = @ + counts.low]

_collect_dependency_results_fn(npm_files) ==
    LET dep_results == CategoryBase("total_vulnerabilities", "completed")
    IN  IF npm_files = <<>> THEN dep_results
        ELSE AddTool(dep_results, "npm_audit", ToolCounts(npm_files, {"moderate", "medium"}))

_collect_container_results_fn(trivy_files) ==
    LET container_results == CategoryBase("total_vulnerabilities", "completed")
    IN  IF trivy_files = <<>> THEN container_results
        ELSE AddTool(container_results, "trivy", ToolCounts(trivy_files, {"medium"}))

RECURSIVE CountExact(_, _)
\* sum(1 for check in failed_checks if check.get('severity') == sev)
CountExact(failed_checks, sev) ==
    IF failed_checks = <<>> THEN 0
    ELSE (IF Head(failed_checks) = sev THEN 1 ELSE 0) + CountExact(Tail(failed_checks), sev)

\* reads checkov_files[0] only; what is neither HIGH nor MEDIUM counts as low
_collect_iac_results_fn(checkov_files) ==
    LET iac_results == CategoryBase("total_issues", "completed")
    IN  IF checkov_files = <<>> THEN iac_results
        ELSE IF ~checkov_files[1].ok
        THEN [iac_results EXCEPT !.tools = "checkov" :> ToolError]
        ELSE LET failed_checks == checkov_files[1].failed_checks
                 n_issues == Len(failed_checks)
                 high == CountExact(failed_checks, "HIGH")
                 medium == CountExact(failed_checks, "MEDIUM")
                 low == n_issues - high - medium
             IN  [iac_results EXCEPT
                    !.tools = "checkov" :> [issues |-> n_issues, high |-> high,
                                            medium |-> medium, low |-> low,
                                            status |-> "completed"],
                    !.total_issues = @ + n_issues,
                    !.high = @ + high,
                    !.medium = @ + medium,
                    !.low = @ + low]

_collect_dast_results_fn(dast_files) ==
    LET dast_results == CategoryBase("total_vulnerabilities", "not_run")
    IN  IF dast_files = <<>> THEN dast_results
        ELSE [dast_results EXCEPT !.status = "completed"]

\* reads trufflehog_files[0] only; a line that is no JSON is skipped
_collect_secrets_results_fn(trufflehog_files) ==
    LET secrets_results ==
            [tools |-> EmptyDict, total_secrets |-> 0, verified |-> 0, unverified |-> 0,
             status |-> "completed"]
    IN  IF trufflehog_files = <<>> THEN secrets_results
        ELSE IF ~trufflehog_files[1].ok
        THEN [secrets_results EXCEPT !.tools = "trufflehog" :> ToolError]
        ELSE LET verified == CountExact(trufflehog_files[1].lines, "verified")
                 unverified == CountExact(trufflehog_files[1].lines, "unverified")
             IN  [secrets_results EXCEPT
                    !.tools = "trufflehog" :> [verified |-> verified,
                                               unverified |-> unverified,
                                               total |-> verified + unverified,
                                               status |-> "completed"],
                    !.verified = @ + verified,
                    !.unverified = @ + unverified,
                    !.total_secrets = @ + verified + unverified]

\* reads gate_files[0] only; an exception is printed and the defaults stay
_collect_quality_gate_results_fn(gate_files) ==
    LET quality_gates == [overall_status |-> "unknown", passed_gates |-> 0,
                          failed_gates |-> 0, security_debt |-> 0]
    IN  IF gate_files = <<>> \/ ~gate_files[1].ok THEN quality_gates
        ELSE [overall_status |-> LowerChars(gate_files[1].overall_result),
              passed_gates |-> gate_files[1].passed_gates,
              failed_gates |-> gate_files[1].failed_gates,
              security_debt |-> gate_files[1].security_debt]

\* the order of self.scan_results.items() without quality_gates
ScanTypes == <<"sast", "dependencies", "containers", "iac", "dast", "secrets">>

RECURSIVE SumScans(_, _, _)
\* the loop of _calculate_summary over ScanTypes[i..]
SumScans(sm, scans, i) ==
    IF i > Len(ScanTypes) THEN sm
    ELSE LET res == scans[ScanTypes[i]]
         IN  SumScans([sm EXCEPT
                         !.critical = @ + Get(res, "critical", 0),
                         !.high = @ + Get(res, "high", 0),
                         !.medium = @ + Get(res, "medium", 0),
                         !.low = @ + Get(res, "low", 0),
                         !.scans_completed = @ + (IF res.status = "completed" THEN 1 ELSE 0),
                         !.scans_failed = @ + (IF res.status = "error" THEN 1 ELSE 0)],
                      scans, i + 1)

_calculate_summary_fn(sm, scans) ==
    LET summed == SumScans(sm, scans, 1)
    IN  [summed EXCEPT
            !.total_issues = summed.critical + summed.high + summed.medium + summed.low,
            !.security_debt = scans.quality_gates.security_debt,
            !.quality_gates_passed = (scans.quality_gates.overall_status = "passed")]

-----------------------------------------------------------------------------
\* The result files drawn by the model, and collect_all_results step by step.

\* eslint-security-results.json files: unreadable, one message, no message
ReportEslintFiles ==
    { [ok |-> FALSE, messages |-> <<>>], [ok |-> TRUE, messages |-> <<2>>],
      [ok |-> TRUE, messages |-> <<>>] }

\* npm-audit-*.json files: unreadable, or the severities of the vulnerabilities
ReportAuditFiles ==
    { [ok |-> FALSE, vulnerabilities |-> <<>>],
      [ok |-> TRUE, vulnerabilities |-> <<"critical", "High">>],
      [ok |-> TRUE, vulnerabilities |-> <<"moderate", "low", "">>] }

\* trivy-*.json file lists
TrivyLists ==
    { <<>>,
      <<[ok |-> TRUE, vulnerabilities |-> <<"CRITICAL", "MEDIUM", "UNKNOWN">>]>>,
      <<[ok |-> FALSE, vulnerabilities |-> <<>>],
        [ok |-> TRUE, vulnerabilities |-> <<"LOW">>]>> }

\* checkov-results.json file lists
CheckovLists ==
    { <<>>,
      <<[ok |-> FALSE, failed_checks |-> <<>>]>>,
      <<[ok |-> TRUE, failed_checks |-> <<"HIGH", "CRITICAL", "">>]>>,
      <<[ok |-> TRUE, failed_checks |-> <<"MEDIUM">>], [ok |-> TRUE, failed_checks |-> <<>>]>>,
      <<[ok |-> TRUE, failed_checks |-> <<>>], [ok |-> TRUE, failed_checks |-> <<"MEDIUM">>]>> }

DastLists == { <<>>, <<"consolidated-security-report.html">> }

TrufflehogLists ==
    { <<>>,
      <<[ok |-> TRUE, lines |-> <<"verified", "not json", "unverified">>]>> }

GateReportLists ==
    { <<>>,
      <<[ok |-> TRUE, overall_result |-> "PASSED", passed_gates |-> 2, failed_gates |-> 0,
         security_debt |-> 20]>>,
      <<[ok |-> TRUE, overall_result |-> "FAILED", passed_gates |-> 1, failed_gates |-> 1,
         security_debt |-> 90],
        [ok |-> TRUE, overall_result |-> "PASSED", passed_gates |-> 2, failed_gates |-> 0,
         security_debt |-> 20]>> }

\* one _collect_* call of collect_all_results: the glob finds files, the
\* category result is stored under scan_type
Collect(scan_type, files, category_results) ==
    /\ results_dir' = results_dir @@ (scan_type :> files)
    /\ scan_results' = scan_results @@ (scan_type :> category_results)

_collect_sast_results ==
    /\ report_pc = "sast"
    /\ \E eslint_files \in SeqUpTo(ReportEslintFiles, MaxFiles) :
          Collect("sast", eslint_files, _collect_sast_results_fn(eslint_files))
    /\ report_pc' = "dependencies"
    /\ UNCHANGED <<report_summary, not_report_vars>>

_collect_dependency_results ==
    /\ report_pc = "dependencies"
    /\ \E npm_files \in SeqUpTo(ReportAuditFiles, MaxFiles) :
          Collect("dependencies", npm_files, _collect_dependency_results_fn(npm_files))
    /\ report_pc' = "containers"
    /\ UNCHANGED <<report_summary, not_report_vars>>

_collect_container_results ==
    /\ report_pc = "containers"
    /\ \E trivy_files \in TrivyLists :
          Collect("containers", trivy_files, _collect_container_results_fn(trivy_files))
    /\ report_pc' = "iac"
    /\ UNCHANGED <<report_summary, not_report_vars>>

_collect_iac_results ==
    /\ report_pc = "iac"
    /\ \E checkov_files \in CheckovLists :
          Collect("iac", checkov_files, _collect_iac_results_fn(checkov_files))
    /\ report_pc' = "dast"
    /\ UNCHANGED <<report_summary, not_report_vars>>

_collect_dast_results ==
    /\ report_pc = "dast"
    /\ \E dast_files \in DastLists :
          Collect("dast", dast_files, _collect_dast_results_fn(dast_files))
    /\ report_pc' = "secrets"
    /\ UNCHANGED <<report_summary, not_report_vars>>

_collect_secrets_results ==
    /\ report_pc = "secrets"
    /\ \E trufflehog_files \in TrufflehogLists :
          Collect("secrets", trufflehog_files, _collect_secrets_results_fn(trufflehog_files))
    /\ report_pc' = "quality_gates"
    /\ UNCHANGED <<report_summary, not_report_vars>>

_collect_quality_gate_results ==
    /\ report_pc = "quality_gates"
    /\ \E gate_files \in GateReportLists :
          Collect("quality_gates", gate_files, _collect_quality_gate_results_fn(gate_files))
    /\ report_pc' = "summary"
    /\ UNCHANGED <<report_summary, not_report_vars>>

_calculate_summary ==
    /\ report_pc = "summary"
    /\ report_summary' = _calculate_summary_fn(report_summary, scan_results)
    /\ report_pc' = "done"
    /\ UNCHANGED <<results_dir, scan_results, not_report_vars>>

ReportInit ==
    /\ report_pc = "sast"
    /\ results_dir = EmptyDict
    /\ scan_results = EmptyDict
    /\ report_summary = InitSummary
    /\ GateIdle
    /\ ComposeIdle
    /\ WorkflowIdle
    /\ AdapterIdle

ReportNext ==
    \/ _collect_sast_results
    \/ _collect_dependency_results
    \/ _collect_container_results
    \/ _collect_iac_results
    \/ _collect_dast_results
    \/ _collect_secrets_results
    \/ _collect_quality_gate_results
    \/ _calculate_summary

SpecReport == ReportInit /\ [][ReportNext]_vars

\* a second collect_all_results() on the same generator, over the same files:
\* every category result is rebuilt, self.summary is the one of the first run
collect_all_results_again ==
    /\ report_pc = "done"
    /\ scan_results' =
          [sast |-> _collect_sast_results_fn(results_dir.sast),
           dependencies |-> _collect_dependency_results_fn(results_dir.dependencies),
           containers |-> _collect_container_results_fn(results_dir.containers),
           iac |-> _collect_iac_results_fn(results_dir.iac),
           dast |-> _collect_dast_results_fn(results_dir.dast),
           secrets |-> _collect_secrets_results_fn(results_dir.secrets),
           quality_gates |-> _collect_quality_gate_results_fn(results_dir.quality_gates)]
    /\ report_summary' = _calculate_summary_fn(report_summary, scan_results')
    /\ report_pc' = "done_again"
    /\ UNCHANGED <<results_dir, not_report_vars>>

RecollectNext ==
    \/ ReportNext
    \/ collect_all_results_again

SpecRecollect == ReportInit /\ [][RecollectNext]_vars

-----------------------------------------------------------------------------
\* generate-dependency-report.py and generate-iac-report.py: the parse_*
\* methods and _update_summary. A record of a tool's output is reduced to its
\* severity field: [kind |-> "absent"] when the key is missing, [kind |-> "null"]
\* for a JSON null, [kind |-> "str", severity |-> s] otherwise.

\* most records in the output of one tool
MaxRecords == 2

\* c.upper() for one character
UpperChar(c) ==
    CASE c = "a" -> "A" [] c = "b" -> "B" [] c = "c" -> "C" [] c = "d" -> "D"
      [] c = "e" -> "E" [] c = "f" -> "F" [] c = "g" -> "G" [] c = "h" -> "H"
      [] c = "i" -> "I" [] c = "j" -> "J" [] c = "k" -> "K" [] c = "l" -> "L"
      [] c = "m" -> "M" [] c = "n" -> "N" [] c = "o" -> "O" [] c = "p" -> "P"
      [] c = "q" -> "Q" [] c = "r" -> "R" [] c = "s" -> "S" [] c = "t" -> "T"
      [] c = "u" -> "U" [] c = "v" -> "V" [] c = "w" -> "W" [] c = "x" -> "X"
      [] c = "y" -> "Y" [] c = "z" -> "Z" [] OTHER -> c

RECURSIVE UpperChars(_)
\* s.upper()
UpperChars(s) ==
    IF Len(s) = 0 THEN ""
    ELSE UpperChar(SubSeq(s, 1, 1)) \o UpperChars(SubSeq(s, 2, Len(s)))

Absent == [kind |-> "absent"]
JsonNull == [kind |-> "null"]
Str(s) == [kind |-> "str", severity |-> s]

\* self.summary after __init__ of either generator
AdapterInitSummary ==
    [critical |-> 0, high |-> 0, medium |-> 0, low |-> 0, info |-> 0, total |-> 0]

DependencyTools == {"NPM Audit", "OSV Scanner", "Trivy"}

\* the bucket _update_summary adds to; only the dependency generator knows 'moderate'
Bucket(tool, severity) ==
    LET severity_lower == LowerChars(severity)
    IN  IF severity_lower = "critical" THEN "critical"
        ELSE IF severity_lower = "high" THEN "high"
        ELSE IF severity_lower = "medium" THEN "medium"
        ELSE IF severity_lower = "moderate" /\ tool \in DependencyTools THEN "medium"
        ELSE IF severity_lower = "low" THEN "low"
        ELSE "info"

_update_summary(sm, tool, severity) ==
    [sm EXCEPT ![Bucket(tool, severity)] = @ + 1, !.total = @ + 1]

_map_osv_severity(severity) ==
    LET upper == UpperChars(severity)
    IN  IF upper = "CRITICAL" THEN "critical"
        ELSE IF upper = "HIGH" THEN "high"
        ELSE IF upper = "MODERATE" THEN "medium"
        ELSE IF upper = "LOW" THEN "low"
        ELSE "medium"

_map_checkov_severity(severity) ==
    LET upper == UpperChars(severity)
    IN  IF upper = "CRITICAL" THEN "critical"
        ELSE IF upper = "HIGH" THEN "high"
        ELSE IF upper = "MEDIUM" THEN "medium"
        ELSE IF upper = "LOW" THEN "low"
        ELSE IF upper = "INFO" THEN "info"
        ELSE "medium"

\* the 'type' each parse_* method writes into its records
TypeOf(tool) ==
    IF tool = "Trivy" THEN "Container"
    ELSE IF tool \in DependencyTools THEN "Dependency"
    ELSE "IaC Configuration"

\* what a parse_* method makes of one record: it is skipped, the method raises
\* (.upper() or .lower() of None), or a record with this severity is appended
\* record.get('severity', default), then the mapping of the tool
AdaptSeverity(tool, record) ==
    LET Skipped == [raised |-> FALSE, keep |-> FALSE, severity |-> ""]
        Raised == [raised |-> TRUE, keep |-> FALSE, severity |-> ""]
        Kept(s) == [raised |-> FALSE, keep |-> TRUE, severity |-> s]
        given(default) == IF record.kind = "absent" THEN default ELSE record.severity
    IN  IF tool = "NPM Audit"
        THEN IF record.kind = "str" /\ record.severity \in {"moderate", "high", "critical"}
             THEN Kept(record.severity)
             ELSE Skipped
        ELSE IF record.kind = "null" THEN Raised
        ELSE IF tool = "OSV Scanner" THEN Kept(_map_osv_severity(given("MODERATE")))
        ELSE IF tool = "Trivy" THEN Kept(LowerChars(given("unknown")))
        ELSE IF tool = "Checkov" THEN Kept(_map_checkov_severity(given("MEDIUM")))
        ELSE Kept(LowerChars(given("MEDIUM")))

RECURSIVE ParseRecords(_, _, _)
\* the loop of a parse_* method over the records of the tool's output; acc is
\* [findings, summary]. An exception leaves the loop: the except branch prints.
ParseRecords(tool, records, acc) ==
    IF records = <<>> THEN acc
    ELSE LET a == AdaptSeverity(tool, Head(records))
         IN  IF a.raised THEN acc
             ELSE IF ~a.keep THEN ParseRecords(tool, Tail(records), acc)
             ELSE ParseRecords(tool, Tail(records),
                    [findings |-> Append(acc.findings,
                                         [tool |-> tool, type |-> TypeOf(tool),
                                          severity |-> a.severity]),
                     summary |-> _update_summary(acc.summary, tool, a.severity)])

NpmRecords == { Str("critical"), Str("moderate"), Str("low"), Absent }
OsvRecords == { Str("HIGH"), Str("UNRATED"), Absent }
TrivyRecords == { Str("CRITICAL"), Str("UNKNOWN"), JsonNull }
CheckovRecords == { Str("LOW"), Str("NONE"), Absent, JsonNull }
KicsRecords == { Str("HIGH"), Str("TRACE"), Absent }

\* the body of a parse_* method: the records found are adapted and counted
Parse(tool, Records) ==
    \E records \in SeqUpTo(Records, MaxRecords) :
        LET acc == ParseRecords(tool, records,
                      [findings |-> adapter_findings, summary |-> adapter_summary])
        IN  /\ tool_output' = tool_output @@ (tool :> records)
            /\ adapter_findings' = acc.findings
            /\ adapter_summary' = acc.summary

parse_npm_audit_results ==
    /\ adapter_pc = "npm_audit"
    /\ Parse("NPM Audit", NpmRecords)
    /\ adapter_pc' = "osv"
    /\ UNCHANGED not_adapter_vars

parse_osv_results ==
    /\ adapter_pc = "osv"
    /\ Parse("OSV Scanner", OsvRecords)
    /\ adapter_pc' = "trivy"
    /\ UNCHANGED not_adapter_vars

parse_trivy_results ==
    /\ adapter_pc = "trivy"
    /\ Parse("Trivy", TrivyRecords)
    /\ adapter_pc' = "done"
    /\ UNCHANGED not_adapter_vars

parse_checkov_results ==
    /\ adapter_pc = "checkov"
    /\ Parse("Checkov", CheckovRecords)
    /\ adapter_pc' = "kics"
    /\ UNCHANGED not_adapter_vars

parse_kics_results ==
    /\ adapter_pc = "kics"
    /\ Parse("KICS", KicsRecords)
    /\ adapter_pc' = "done"
    /\ UNCHANGED not_adapter_vars

\* main() of the dependency generator or of the IaC generator, after __init__
AdapterInit ==
    /\ adapter_pc \in {"npm_audit", "checkov"}
    /\ tool_output = EmptyDict
    /\ adapter_findings = <<>>
    /\ adapter_summary = AdapterInitSummary
    /\ GateIdle
    /\ ComposeIdle
    /\ WorkflowIdle
    /\ ReportIdle

AdapterNext ==
    \/ parse_npm_audit_results
    \/ parse_osv_results
    \/ parse_trivy_results
    \/ parse_checkov_results
    \/ parse_kics_results

SpecAdapters == AdapterInit /\ [][AdapterNext]_vars

-----------------------------------------------------------------------------
\* Properties of the quality gate (checked under Spec).

GateNames(gates) == {gates[i].gate : i \in 1..Len(gates)}

Failed(g) == g \in GateNames(results.failed_gates)
Passed(g) == g \in GateNames(results.passed_gates)
Recorded(g) == Failed(g) \/ Passed(g)

IsPrefix(a, b) == Len(a) <= Len(b) /\ SubSeq(b, 1, Len(a)) = a

\* C1: whenever a gate is recorded as failed the verdict is passed=false, in
\* every reachable state and in the verdict the run ends with, however many
\* gates passed.
C1_FailedGateFailsVerdict ==
    /\ results.failed_gates # <<>> => ~results.passed
    /\ verdict = "PASSED" => results.failed_gates = <<>>
    /\ verdict = "FAILED" => ~results.passed

\* a finished run with one failed gate among at least five passed ones
C1_Witness ==
    /\ pc = "returned"
    /\ verdict = "FAILED"
    /\ Len(results.failed_gates) = 1
    /\ Len(results.passed_gates) >= 5

\* C2: once passed is false no step sets it back to true, and no step removes
\* or changes an entry of failed_gates; nor does recording one more passing
\* gate in the state a step leads to.
C2_Monotonic ==
    [][ /\ (~results.passed => ~results'.passed)
        /\ IsPrefix(results.failed_gates, results'.failed_gates)
        /\ LET r == _pass_gate(results', "Semgrep", <<"No critical issues found">>)
           IN  /\ (~results'.passed => ~r.passed)
               /\ r.failed_gates = results'.failed_gates ]_vars

\* a per-tool failure followed by passing gates up to the debt gate
C2_Witness ==
    /\ pc = "returned"
    /\ ~results.passed
    /\ results.failed_gates[1].gate = "ESLint Security"
    /\ Passed("NPM Audit")
    /\ Passed("Security Debt")

\* C3 as stated: the exit status is non-zero exactly when the verdict is
\* passed=false.
C3_Original ==
    pc = "exited" => ((exit_code # 0) <=> (verdict = "FAILED"))

\* C3 amended: the process exits 0 exactly when the run produced the verdict
\* passed=true; a verdict passed=false exits 1, and so does a run that aborts
\* without a verdict (configuration not loadable, or an escaped exception).
C3_ExitCode ==
    pc = "exited" =>
        /\ exit_code \in {0, 1}
        /\ (exit_code = 0) <=> (verdict = "PASSED")
        /\ verdict = "PASSED" => results.passed
        /\ verdict = "FAILED" => (~results.passed /\ exit_code = 1)
        /\ verdict = "none" => exit_code = 1

\* a run that recorded passing gates, then aborted with status 1 and no verdict
C3_Witness ==
    /\ pc = "exited"
    /\ exit_code = 1
    /\ verdict = "none"
    /\ results.passed
    /\ results.passed_gates # <<>>

\* place of a gate in the evaluation order
Rank(g) ==
    CASE g = "Security Debt" -> 2
      [] g = "Global Critical Threshold" -> 3
      [] g = "Global High Threshold" -> 4
      [] OTHER -> 1

Ordered(gates) ==
    \A i, j \in 1..Len(gates) :
        i < j => /\ Rank(gates[i].gate) <= Rank(gates[j].gate)
                 /\ Rank(gates[j].gate) >= 2 => Rank(gates[i].gate) < Rank(gates[j].gate)

\* C4: per-tool gates, then the debt gate, then the global thresholds (critical
\* before high); failed_gates (and passed_gates) list their entries in that
\* order, and no debt or global entry exists before its step has run.
C4_Order ==
    /\ Ordered(results.failed_gates)
    /\ Ordered(results.passed_gates)
    /\ pc \in {"construct", "sast", "dependencies", "containers", "iac", "secrets", "debt"}
         => \A g \in GateNames(results.failed_gates) \cup GateNames(results.passed_gates) :
               Rank(g) = 1
    /\ pc = "global"
         => \A g \in GateNames(results.failed_gates) \cup GateNames(results.passed_gates) :
               Rank(g) <= 2

\* both per-tool gates, the debt gate and both global thresholds failed
C4_Witness ==
    /\ pc = "returned"
    /\ Len(results.failed_gates) = 5
    /\ results.failed_gates[1].gate = "ESLint Security"
    /\ results.failed_gates[2].gate = "NPM Audit"
    /\ results.failed_gates[5].gate = "Global High Threshold"

\* the gate each tool records under
GateName ==
    [ eslint_security |-> "ESLint Security", semgrep |-> "Semgrep", codeql |-> "CodeQL",
      sonarcloud |-> "SonarCloud", npm_audit |-> "NPM Audit", snyk |-> "Snyk",
      osv_scanner |-> "OSV Scanner", trivy |-> "Trivy", grype |-> "Grype",
      checkov |-> "Checkov", kics |-> "KICS", hadolint |-> "Hadolint",
      trufflehog |-> "TruffleHog" ]

\* C5 as stated: a tool whose results are absent records neither a pass nor a
\* fail.
C5_Original ==
    \A t \in DOMAIN GateName : t \notin present => ~Recorded(GateName[t])

DebtEvaluated == Recorded("Security Debt")

DefaultWeights == ~HasKey(Get(config, "security_debt", EmptyDict), "scoring")

\* C6: the debt gate fails exactly when the debt is strictly above
\* max_total_debt and passes otherwise; counts critical=1, high=2 with the
\* default weights give 90, passing a ceiling of 100 and failing one of 50.
C6_DebtGate ==
    /\ Failed("Security Debt") => results.security_debt > MaxDebt
    /\ Passed("Security Debt") => results.security_debt <= MaxDebt
    /\ ~(Failed("Security Debt") /\ Passed("Security Debt"))
    /\ pc \in {"global", "report", "returned"} => DebtEvaluated
    /\ ( /\ DebtEvaluated
         /\ DefaultWeights
         /\ results.critical_issues = 1 /\ results.high_issues = 2
         /\ results.medium_issues = 0 /\ results.low_issues = 0 )
         => /\ results.security_debt = 90
            /\ MaxDebt = 100 => Passed("Security Debt")
            /\ MaxDebt = 50 => Failed("Security Debt")

\* the debt equals the ceiling and the gate passed
C6_Witness ==
    /\ Passed("Security Debt")
    /\ results.security_debt = MaxDebt
    /\ results.security_debt > 0

\* the weight of a severity: the configured one, else 50 / 20 / 5 / 1 / 0
Weight(sev) ==
    LET section == Get(config, "security_debt", EmptyDict)
        dflt == CASE sev = "critical" -> 50 [] sev = "high" -> 20 [] sev = "medium" -> 5
                  [] sev = "low" -> 1 [] OTHER -> 0
    IN  IF HasKey(section, "scoring") /\ HasKey(section["scoring"], sev)
        THEN section["scoring"][sev] ELSE dflt

\* the count the gate holds for a severity; it keeps none for info
SeverityCount(sev) ==
    CASE sev = "critical" -> results.critical_issues
      [] sev = "high" -> results.high_issues
      [] sev = "medium" -> results.medium_issues
      [] sev = "low" -> results.low_issues
      [] OTHER -> 0

\* C7: the debt score is the sum over the severities of count * weight, with
\* the configured weights and the defaults 50 / 20 / 5 / 1 / 0: a function of
\* the counts and the weight table alone.
C7_DebtIsWeightedSum ==
    DebtEvaluated =>
        results.security_debt =
            SeverityCount("critical") * Weight("critical")
              + SeverityCount("high") * Weight("high")
              + SeverityCount("medium") * Weight("medium")
              + SeverityCount("low") * Weight("low")
              + SeverityCount("info") * Weight("info")

\* a configured table without a weight for high, and both counts positive
C7_Witness ==
    /\ DebtEvaluated
    /\ ~DefaultWeights
    /\ ~HasKey(config["security_debt"]["scoring"], "high")
    /\ results.critical_issues > 0
    /\ results.high_issues > 0

FailOnCritical == Get(Get(config, "global", EmptyDict), "fail_on_critical", TRUE)

HighThreshold == Get(Get(config, "global", EmptyDict), "fail_on_high_threshold", 5)

\* C8: 'Global Critical Threshold' fails iff fail_on_critical is set and the
\* critical count is positive; 'Global High Threshold' fails iff the high count
\* exceeds fail_on_high_threshold; neither outcome depends on the other.
C8_GlobalThresholds ==
    /\ Failed("Global Critical Threshold")
         => (FailOnCritical /\ results.critical_issues > 0)
    /\ Failed("Global High Threshold") => results.high_issues > HighThreshold
    /\ pc \in {"report", "returned"}
         => /\ (FailOnCritical /\ results.critical_issues > 0)
                  => Failed("Global Critical Threshold")
            /\ results.high_issues > HighThreshold => Failed("Global High Threshold")
    /\ ~Passed("Global Critical Threshold") /\ ~Passed("Global High Threshold")

\* both global thresholds failed in one run
C8_Witness ==
    /\ pc = "returned"
    /\ Failed("Global Critical Threshold")
    /\ Failed("Global High Threshold")

Categories == {"sast", "dependencies", "containers", "iac", "secrets"}

\* the configuration file is unreadable, empty, or lacks a category section
Malformed ==
    \/ config_state \in {"unreadable", "null"}
    \/ config_state = "doc" /\ \E cat \in Categories : ~HasKey(config, cat)

\* C9 as stated: with a missing or malformed configuration no gate is ever
\* recorded and no verdict is produced.
C9_Original ==
    Malformed => /\ results.passed_gates = <<>>
                 /\ results.failed_gates = <<>>
                 /\ verdict = "none"

-----------------------------------------------------------------------------
\* Properties of the compose scanner (checked under SpecCompose).

\* privileged: true, no user, cap_add: [SYS_ADMIN], nothing else
C10_Document ==
    Doc(TRUE, FALSE, TRUE,
        <<Service("web", [privileged |-> TRUE, cap_add |-> <<"SYS_ADMIN">>])>>)

Finding(service_name, rule_name, severity) ==
    [file |-> ComposeFile, service |-> service_name, rule |-> rule_name,
     severity |-> severity]

\* C10 as stated: that document yields exactly the three Findings
\* privileged_containers, no_user_specified and insecure_capabilities.
C10_Original ==
    (compose_doc = C10_Document /\ compose_pc # "start") =>
        /\ Len(issues) = 3
        /\ {issues[i] : i \in 1..Len(issues)} =
              { Finding("web", "privileged_containers", "critical"),
                Finding("web", "no_user_specified", "medium"),
                Finding("web", "insecure_capabilities", "high") }

\* C10 amended: that document yields exactly four Findings, the three of the
\* claim and root_filesystem_writable (medium), read_only being absent too.
C10_FourFindings ==
    (compose_doc = C10_Document /\ compose_pc # "start") =>
        issues = << Finding("web", "privileged_containers", "critical"),
                    Finding("web", "root_filesystem_writable", "medium"),
                    Finding("web", "no_user_specified", "medium"),
                    Finding("web", "insecure_capabilities", "high") >>

\* the document was scanned and its results reported
C10_Witness ==
    /\ compose_doc = C10_Document
    /\ compose_pc = "done"
    /\ summary.total_issues = 4

\* the first scan of the document has run (a later scan appends to its issues)
FirstScan == compose_pc \in {"scanned", "done"}

\* env_vars of a service as _scan_service reads them
EnvEntries(service_config) ==
    LET environment == Get(service_config, "environment", [kind |-> "map", items |-> <<>>])
    IN  IF environment.kind = "list" THEN environment.items
        ELSE FormatItems(environment.items)

NrSensitive(entry) ==
    Cardinality({i \in 1..Len(sensitive_patterns) :
                    Contains(LowerStr(entry), sensitive_patterns[i])})

IsWeak(entry) ==
    \E w \in {<<"1", "2", "3">>, <<"password">>, <<"secret">>, <<"admin">>, <<"root">>} :
        Contains(LowerStr(entry), w)

\* what one entry is to yield: nothing, or one pair of service and rule
EntryFindings(service_name, entry) ==
    IF NrSensitive(entry) = 0 THEN <<>>
    ELSE IF IsWeak(entry) THEN << <<service_name, "default_secrets">> >>
    ELSE << <<service_name, "insecure_environment">> >>

RECURSIVE EntriesFindings(_, _)
EntriesFindings(service_name, entries) ==
    IF entries = <<>> THEN <<>>
    ELSE EntryFindings(service_name, Head(entries))
            \o EntriesFindings(service_name, Tail(entries))

RECURSIVE ServicesEnvFindings(_)
\* over the services walked before the scan stops at one that is no mapping
ServicesEnvFindings(services) ==
    IF services = <<>> \/ ~Head(services).isdict THEN <<>>
    ELSE EntriesFindings(Head(services).name, EnvEntries(Head(services).config))
            \o ServicesEnvFindings(Tail(services))

\* the environment Findings among iss, in order, as pairs of service and rule
EnvFindings(iss) ==
    LET env == SelectSeq(iss, LAMBDA f :
                   f.rule \in {"default_secrets", "insecure_environment"})
    IN  [i \in 1..Len(env) |-> <<env[i].service, env[i].rule>>]

\* C11: the environment Findings of a scanned document are, entry by entry and
\* in order, one default_secrets for an entry with a sensitive keyword and a
\* weak value, one insecure_environment for an entry with a sensitive keyword
\* and no weak value, nothing otherwise: never two Findings for one entry,
\* however many sensitive keywords it matches.
C11_OneFindingPerEntry ==
    FirstScan => EnvFindings(issues) = ServicesEnvFindings(compose_doc.services)

\* an entry with two sensitive keywords and a weak value was scanned
C11_Witness ==
    /\ compose_pc = "done"
    /\ Len(compose_doc.services) = 1
    /\ \E i \in 1..Len(EnvEntries(compose_doc.services[1].config)) :
          LET entry == EnvEntries(compose_doc.services[1].config)[i]
          IN  NrSensitive(entry) >= 2 /\ IsWeak(entry)
    /\ \E i \in 1..Len(issues) : issues[i].rule = "default_secrets"

-----------------------------------------------------------------------------
\* Properties of the two scanners (checked under SpecScanners or SpecWorkflow).

\* the Findings of the i-th workflow file, in order
FileFindings(i) ==
    SelectSeq(workflow_issues, LAMBDA f : f.file = WorkflowPath(i))

\* the workflow files scanned so far
ScannedFiles == 1..(workflow_next - 1)

\* a compose document that parsed and has no root 'services' key
LacksServices(doc) == doc.parses /\ ~doc.has_services

\* a workflow document that parsed, to a mapping or to nothing, and has no
\* root 'jobs' key
LacksJobs(doc) == doc.parses /\ doc.kind \in {"empty", "map"} /\ ~HasKey(doc.d, "jobs")

NamesPullRequestTarget(doc) ==
    /\ HasKey(doc.d, "on")
    /\ \/ doc.d.on.kind = "map" /\ "pull_request_target" \in doc.d.on.keys
       \/ doc.d.on.kind = "list" /\ InSeq("pull_request_target", doc.d.on.items)
       \/ doc.d.on.kind = "str" /\ Contains(doc.d.on.s, "pull_request_target")

NullOn(doc) == HasKey(doc.d, "on") /\ doc.d.on.kind = "null"

HasParseError(findings) ==
    \E k \in 1..Len(findings) : findings[k].rule = "parse_error"

\* C13 as stated: a document whose scan fails (the parse raises, or the walk
\* raises) contributes the parse_error Finding (high, scope N/A) and no other
\* Finding, and the Findings of every other file are what its scan alone yields.
C13_Original ==
    /\ (FirstScan /\ HasParseError(issues)) => issues = <<ParseError(ComposeFile)>>
    /\ \A i \in ScannedFiles :
          /\ HasParseError(FileFindings(i)) =>
                FileFindings(i) = <<WfParseError(WorkflowPath(i))>>
          /\ FileFindings(i) =
                scan_workflow_file_fn(<<>>, WorkflowPath(i), workflow_files[i])

\* the number of times x occurs in the sequence sq
Occurrences(sq, x) == Cardinality({k \in 1..Len(sq) : sq[k] = x})

SameMultiset(a, b) ==
    /\ Len(a) = Len(b)
    /\ \A k \in 1..Len(a) : Occurrences(a, a[k]) = Occurrences(b, a[k])

\* C14 as stated: the Finding set reported after the second scan of a document
\* equals, as a multiset, the one reported after the first.
C14_Original ==
    (compose_pc = "done_again" /\ compose_doc.parses) =>
        /\ SameMultiset(summary.issues, previous.issues)
        /\ summary.total_issues = previous.total_issues
        /\ summary.summary = previous.summary

\* the reference of a step names an external action
External(uses) ==
    uses # "" /\ ~StartsWith(uses, "./") /\ ~StartsWith(uses, "docker://")

\* the version suffix of a reference: what follows its first '@'
Suffix(uses) == SubSeq(uses, IndexOf(uses, "@") + 1, Len(uses))

\* pinned as the claim defines it: the suffix is forty lowercase hex digits, or
\* begins with a digit or with 'v'
Pinned(uses) ==
    /\ IndexOf(uses, "@") # 0
    /\ \/ /\ Len(Suffix(uses)) = 40
          /\ \A c \in 1..40 : SubSeq(Suffix(uses), c, c) \in HexDigits
       \/ /\ Len(Suffix(uses)) > 0
          /\ SubSeq(Suffix(uses), 1, 1) \in
                {"0", "1", "2", "3", "4", "5", "6", "7", "8", "9", "v"}

\* the step at index k of a job was flagged third_party_action_no_pin
FlaggedNoPin(i, job_name, step_config, k) ==
    \E f \in 1..Len(workflow_issues) :
        workflow_issues[f] =
            [file |-> WorkflowPath(i), job |-> job_name,
             step |-> Get(step_config, "name", "step-" \o ToString(k)),
             rule |-> "third_party_action_no_pin", severity |-> "high"]

\* C16 as stated: a step that uses an external action is flagged
\* third_party_action_no_pin if and only if its reference is not pinned.
C16_Original ==
    \A i \in ScannedFiles :
        LET doc == workflow_files[i]
            jobs == Get(doc.d, "jobs", NullJobs).items
        IN  (doc.parses /\ doc.kind = "map") =>
              \A j \in 1..Len(jobs) :
                  LET steps == Get(jobs[j].config, "steps", <<>>)
                  IN  \A k \in 1..Len(steps) :
                         External(Get(steps[k], "uses", "")) =>
                            (FlaggedNoPin(i, jobs[j].name, steps[k], k - 1)
                                <=> ~Pinned(steps[k].uses))

-----------------------------------------------------------------------------
\* Properties of the comprehensive report (checked under SpecReport).

\* every order in which the glob can hand over the same files
Orders(files) ==
    { [i \in 1..Len(files) |-> files[p[i]]] :
        p \in { q \in [1..Len(files) -> 1..Len(files)] :
                  \A i, j \in 1..Len(files) : q[i] = q[j] => i = j } }

\* the summary collect_all_results computes from the files in dir
SummaryOf(dir) ==
    _calculate_summary_fn(InitSummary,
        [sast |-> _collect_sast_results_fn(dir.sast),
         dependencies |-> _collect_dependency_results_fn(dir.dependencies),
         containers |-> _collect_container_results_fn(dir.containers),
         iac |-> _collect_iac_results_fn(dir.iac),
         dast |-> _collect_dast_results_fn(dir.dast),
         secrets |-> _collect_secrets_results_fn(dir.secrets),
         quality_gates |-> _collect_quality_gate_results_fn(dir.quality_gates)])

SameCountsAndDebt(a, b) ==
    \A k \in {"total_issues", "critical", "high", "medium", "low", "info", "security_debt"} :
        a[k] = b[k]

\* C15: whatever the order in which the files of a tool are found, the
\* per-severity counts and the debt score of the summary are the same.
C15_Original ==
    report_pc = "done" =>
        \A scan_type \in DOMAIN results_dir :
            \A files \in Orders(results_dir[scan_type]) :
                SameCountsAndDebt(SummaryOf([results_dir EXCEPT ![scan_type] = files]),
                                  report_summary)

\* some file of the list could not be read or parsed
SomeFileFails(files) == \E i \in 1..Len(files) : ~files[i].ok

RECURSIVE TotalMessages(_)
\* the messages of every readable file of the list
TotalMessages(files) ==
    IF files = <<>> THEN 0
    ELSE (IF Head(files).ok THEN Len(Head(files).messages) ELSE 0)
           + TotalMessages(Tail(files))

\* the tool's entry of a category result says status error and gives the message
ToolSaysError(category_results, tool) ==
    /\ HasKey(category_results.tools, tool)
    /\ category_results.tools[tool].status = "error"
    /\ HasKey(category_results.tools[tool], "error")

\* C18: when a file of npm audit or of ESLint cannot be read, the other files
\* of the tool are still counted and the tool's entry carries status error
\* with the message.
C18_Original ==
    report_pc = "done" =>
        /\ SomeFileFails(results_dir.dependencies) =>
              /\ scan_results.dependencies.total_vulnerabilities
                    = TotalVulns(results_dir.dependencies)
              /\ ToolSaysError(scan_results.dependencies, "npm_audit")
        /\ SomeFileFails(results_dir.sast) =>
              /\ scan_results.sast.total_issues = TotalMessages(results_dir.sast)
              /\ ToolSaysError(scan_results.sast, "eslint")

\* the status the tools of a category determine; files are what the tools of
\* the category left behind
StatusByTools(category_results, files) ==
    LET tools == category_results.tools
    IN  IF files = <<>> /\ tools = EmptyDict THEN "not_run"
        ELSE IF tools # EmptyDict /\ \A tool \in DOMAIN tools : tools[tool].status = "completed"
        THEN "completed"
        ELSE IF /\ \E tool \in DOMAIN tools : tools[tool].status = "error"
                /\ ~\E tool \in DOMAIN tools : tools[tool].status = "completed"
        THEN "error"
        ELSE category_results.status

\* C19: a category is not_run when no tool ran, completed when every tool that
\* ran completed, error when a tool reported error and none completed.
C19_Original ==
    \A scan_type \in DOMAIN scan_results \ {"quality_gates"} :
        scan_results[scan_type].status
            = StatusByTools(scan_results[scan_type], results_dir[scan_type])

-----------------------------------------------------------------------------
\* Properties of the report generators' adapters (checked under SpecAdapters).

\* the records all tools of the run put out
NrRecords ==
    LET RECURSIVE Sum(_)
        Sum(tools) == IF tools = {} THEN 0
                      ELSE LET tool == CHOOSE x \in tools : TRUE
                           IN  Len(tool_output[tool]) + Sum(tools \ {tool})
    IN  Sum(DOMAIN tool_output)

\* the severity of the record is one the generator's buckets know
Recognized(tool, record) ==
    /\ record.kind = "str"
    /\ Bucket(tool, record.severity) # "info" \/ LowerChars(record.severity) = "info"

\* the records whose severity is unknown to the generator
NrUnrecognized ==
    LET RECURSIVE Sum(_)
        Sum(tools) ==
            IF tools = {} THEN 0
            ELSE LET tool == CHOOSE x \in tools : TRUE
                 IN  Cardinality({ i \in 1..Len(tool_output[tool]) :
                                     ~Recognized(tool, tool_output[tool][i]) })
                       + Sum(tools \ {tool})
    IN  Sum(DOMAIN tool_output)

\* C17: every record of every tool's output is a counted Finding, and the
\* records with an unknown severity are exactly those counted as info.
C17_Original ==
    adapter_pc = "done" =>
        /\ Len(adapter_findings) = NrRecords
        /\ adapter_summary.total = NrRecords
        /\ adapter_summary.info = NrUnrecognized

Severity == {"critical", "high", "medium", "low", "info"}

\* C20: every Finding of an adapter has its category and a severity of the
\* canonical five, and is counted in exactly one bucket.
C20_Original ==
    /\ \A i \in 1..Len(adapter_findings) :
          /\ adapter_findings[i].severity \in Severity
          /\ adapter_findings[i].type # ""
    /\ adapter_pc # "idle" =>
          adapter_summary.critical + adapter_summary.high + adapter_summary.medium
            + adapter_summary.low + adapter_summary.info = Len(adapter_findings)

-----------------------------------------------------------------------------
\* Properties of the aggregation, repeated (checked under SpecRecollect).

RECURSIVE SumOverCategories(_, _)
\* the sum of one severity's count over the category results named in scan_types
SumOverCategories(scan_types, severity) ==
    IF scan_types = <<>> THEN 0
    ELSE Get(scan_results[Head(scan_types)], severity, 0)
           + SumOverCategories(Tail(scan_types), severity)

\* C21: after every aggregation run, the first and a repeated one, each global
\* count is the sum of the categories' counts and total_issues is the sum of
\* the global counts.
C21_Original ==
    report_pc \in {"done", "done_again"} =>
        /\ \A severity \in {"critical", "high", "medium", "low"} :
              report_summary[severity] = SumOverCategories(ScanTypes, severity)
        /\ report_summary.total_issues
              = report_summary.critical + report_summary.high
                  + report_summary.medium + report_summary.low

-----------------------------------------------------------------------------
\* Further properties of the quality gate (checked under Spec).

\* how often gate name g is recorded in r, as a pass or as a fail
NrRecorded(r, g) ==
    Cardinality({i \in 1..Len(r.passed_gates) : r.passed_gates[i].gate = g})
      + Cardinality({i \in 1..Len(r.failed_gates) : r.failed_gates[i].gate = g})

FailedIn(r, g) == g \in GateNames(r.failed_gates)

\* the tool has its own section under the tools of an enabled category and is
\* enabled itself
Configured(cat, tool) ==
    /\ config_state = "doc"
    /\ HasKey(config, cat)
    /\ CategoryEnabled(cat)
    /\ HasKey(Tools(cat), tool)
    /\ ToolEnabled(Tools(cat), tool)

\* fail_on_critical, fail_on_high and max_issues applied to a tool's counts
ThreeThresholds(cfg, critical_count, high_count) ==
    \/ Truthy(cfg, "fail_on_critical") /\ critical_count > 0
    \/ Truthy(cfg, "fail_on_high") /\ high_count > 0
    \/ critical_count + high_count > Get(cfg, "max_issues", 0)

\* the thresholds npm audit has: max_critical and max_high, each behind its flag
AuditThresholds(cfg, critical_count, high_count) ==
    \/ Truthy(cfg, "fail_on_critical") /\ critical_count > Get(cfg, "max_critical", 0)
    \/ Truthy(cfg, "fail_on_high") /\ high_count > Get(cfg, "max_high", 0)

\* the step of check_sast_gates that read file: ESLint's gate is recorded once,
\* failing exactly when Fails(section, critical, high) of its own counts
EslintDecidedBy(Fails(_, _, _)) ==
    (pc = "sast" /\ Configured("sast", "eslint_security") /\ "eslint_security" \in present) =>
        \A file \in EslintFiles :
            (file.ok /\ results' = check_sast_gates_fn(results, file).r) =>
                /\ NrRecorded(results', "ESLint Security") = 1
                /\ FailedIn(results', "ESLint Security")
                      <=> Fails(Tools("sast")["eslint_security"], 0,
                                EslintHighCount(file.messages))

\* the same for npm audit and the step of check_dependency_gates, which found
\* audit files: the counts of npm audit are what the step adds to self.results
\* (no other dependency tool adds any)
AuditDecidedBy(Fails(_, _, _)) ==
    (/\ pc = "dependencies"
     /\ pc' = "containers"
     /\ Configured("dependencies", "npm_audit")
     /\ "npm_audit" \in present) =>
        /\ NrRecorded(results', "NPM Audit") = 1
        /\ FailedIn(results', "NPM Audit")
              <=> Fails(Tools("dependencies")["npm_audit"],
                        results'.critical_issues - results.critical_issues,
                        results'.high_issues - results.high_issues)

Evaluating == pc = "sast" /\ config_state = "doc"

\* the run produced its verdict
Decided == verdict # "none"

\* every gate was evaluated and the report file could not be written
ReportNotWritten == pc = "exited" /\ verdict = "none" /\ Recorded("Security Debt")

\* C23: every run that starts evaluating with a loaded configuration reaches
\* decided (unless the report file cannot be written), and once decided,
\* passed, failed_gates and passed_gates no longer change.
C23_Original ==
    /\ Evaluating ~> (Decided \/ ReportNotWritten)
    /\ [][Decided => /\ results'.passed = results.passed
                     /\ results'.failed_gates = results.failed_gates
                     /\ results'.passed_gates = results.passed_gates]_vars

-----------------------------------------------------------------------------
\* Further properties of the two scanners.

\* the Findings of the compose scan with this rule and this service
NrFindings(iss, service_name, rule_name) ==
    Cardinality({ i \in 1..Len(iss) :
                    iss[i].service = service_name /\ iss[i].rule = rule_name })

\* the Findings of the workflow scan with this rule in this step of this job
NrStepFindings(iss, file_path, job_name, step_name, rule_name) ==
    Cardinality({ i \in 1..Len(iss) :
                    /\ iss[i].file = file_path /\ iss[i].job = job_name
                    /\ iss[i].step = step_name /\ iss[i].rule = rule_name })

\* C24: a single scan holds at most one Finding for a rule and a scope (a
\* service; a step of a job of a file), also when several capabilities, volumes
\* or variables of the scope match the rule.
C24_Original ==
    /\ FirstScan =>
          \A i \in 1..Len(issues) :
              NrFindings(issues, issues[i].service, issues[i].rule) <= 1
    /\ \A i \in 1..Len(workflow_issues) :
          workflow_issues[i].step \in {"step-0", "N/A", "trigger"}
            => NrStepFindings(workflow_issues, workflow_issues[i].file,
                              workflow_issues[i].job, workflow_issues[i].step,
                              workflow_issues[i].rule) <= 1

\* the sensitive path appears in the volume entry, in either representation
MentionsSock(volume) ==
    CASE volume.kind = "str" -> Contains(volume.s, DockerSock)
      [] volume.kind = "dict" ->
            \/ Contains(Get(volume.d, "source", <<>>), DockerSock)
            \/ Contains(Get(volume.d, "target", <<>>), DockerSock)
      [] OTHER -> FALSE

\* every service of the document is a mapping, so the scan walks them all
AllWalked(doc) ==
    /\ doc.parses /\ ~doc.null /\ doc.has_services
    /\ \A i \in 1..Len(doc.services) : doc.services[i].isdict

\* C25: a service has a docker_socket_mount Finding exactly when the path
\* /var/run/docker.sock appears in one of its volume entries: in a string entry,
\* or in the source or the target of a structured entry.
C25_Original ==
    (FirstScan /\ AllWalked(compose_doc)) =>
        \A i \in 1..Len(compose_doc.services) :
            LET service == compose_doc.services[i]
                volumes == Get(service.config, "volumes", <<>>)
            IN  NrFindings(issues, service.name, "docker_socket_mount") >= 1
                    <=> \E v \in 1..Len(volumes) : MentionsSock(volumes[v])

\* the text of a scalar value in the compose file
ValueText(v) ==
    CASE v.kind = "str" -> v.s
      [] v.kind = "int" -> v.text
      [] v.kind = "bool" -> IF v.b THEN <<"true">> ELSE <<"false">>

RECURSIVE ListItems(_)
\* the 'K=V' strings of the entries of an environment map
ListItems(items) ==
    IF items = <<>> THEN <<>>
    ELSE <<Head(items)[1] \o <<"=">> \o ValueText(Head(items)[2])>> \o ListItems(Tail(items))

\* the same service configuration with its environment map written as a list
ListForm(service_config) ==
    IF HasKey(service_config, "environment") /\ service_config.environment.kind = "map"
    THEN [service_config EXCEPT !.environment =
             [kind |-> "list", items |-> ListItems(service_config.environment.items)]]
    ELSE service_config

ListFormDoc(doc) ==
    [doc EXCEPT !.services =
        [i \in 1..Len(doc.services) |->
            [doc.services[i] EXCEPT !.config = ListForm(doc.services[i].config)]]]

\* C27: an environment map and the list of 'K=V' strings of the same
\* environment give _scan_service the same entries, and the scan the same Findings.
C27_Original ==
    (FirstScan /\ AllWalked(compose_doc)) =>
        /\ \A i \in 1..Len(compose_doc.services) :
              EnvEntries(compose_doc.services[i].config)
                = EnvEntries(ListForm(compose_doc.services[i].config))
        /\ issues = scan_compose_file_fn(<<>>, ComposeFile, ListFormDoc(compose_doc))

\* the document has a 'services' mapping
HasServices(doc) == doc.parses /\ ~doc.null /\ doc.has_services

\* the Findings of one service for its user and read_only directives
FailClosed(iss, service) ==
    LET no_user == NrFindings(iss, service.name, "no_user_specified")
        writable == NrFindings(iss, service.name, "root_filesystem_writable")
    IN  /\ ~HasKey(service.config, "user") => no_user >= 1
        /\ ~HasKey(service.config, "read_only") => writable >= 1
        /\ (/\ Get(service.config, "user", "") # ""
            /\ Truthy(service.config, "read_only")) => (no_user = 0 /\ writable = 0)

\* C26: every service without a user directive has a no_user_specified Finding
\* and every service without a read_only directive a root_filesystem_writable
\* Finding, whatever its other fields; a service with a non-empty user and
\* read_only: true has neither.
C26_Original ==
    (FirstScan /\ HasServices(compose_doc)) =>
        \A i \in 1..Len(compose_doc.services) : FailClosed(issues, compose_doc.services[i])

\* the same for the documents whose services are all mappings
C26_Walked ==
    (FirstScan /\ AllWalked(compose_doc)) =>
        \A i \in 1..Len(compose_doc.services) : FailClosed(issues, compose_doc.services[i])

-----------------------------------------------------------------------------
\* Properties of the gate records and counts (checked under Spec).

\* the gate names of the records of r
RecordedNames(r) == GateNames(r.passed_gates) \cup GateNames(r.failed_gates)

\* run_all_checks has returned
Completed == pc = "returned" \/ (pc = "exited" /\ verdict # "none")

\* C28: each gate name occurs at most once in passed_gates and failed_gates
\* taken together, and a completed run holds 'Security Debt' exactly once.
C28_RecordedOnce ==
    /\ \A g \in RecordedNames(results) : NrRecorded(results, g) = 1
    /\ Completed => NrRecorded(results, "Security Debt") = 1

\* a completed run with a failed debt gate, failed and passed tool gates
C28_Witness ==
    /\ Completed
    /\ Failed("Security Debt")
    /\ Failed("ESLint Security")
    /\ Passed("NPM Audit")
    /\ Passed("Semgrep")
    /\ Failed("Global High Threshold")

\* medium_issues, low_issues and total_issues are never touched, and the debt
\* once computed is made of the critical and high counts alone
OnlyCriticalAndHigh ==
    /\ results.medium_issues = 0
    /\ results.low_issues = 0
    /\ results.total_issues = 0
    /\ DebtEvaluated =>
          results.security_debt = results.critical_issues * Weight("critical")
                                    + results.high_issues * Weight("high")

CategoryTools ==
    [ sast |-> {"eslint_security", "semgrep", "codeql", "sonarcloud"},
      dependencies |-> {"npm_audit", "snyk", "osv_scanner"},
      containers |-> {"trivy", "grype"},
      iac |-> {"checkov", "kics", "hadolint"},
      secrets |-> {"trufflehog"} ]

\* the step of a category whose section is in the configuration
CategoryStep(cat) == pc = cat /\ config_state = "doc" /\ HasKey(config, cat)

\* a disabled category leaves the results alone; a disabled tool of an enabled
\* category records no gate and adds no counts
DisabledAddsNothing(cat) ==
    CategoryStep(cat) =>
        /\ ~CategoryEnabled(cat) => results' = results
        /\ CategoryEnabled(cat) =>
              \A t \in CategoryTools[cat] :
                  ~ToolEnabled(Tools(cat), t) =>
                      /\ NrRecorded(results', GateName[t]) = 0
                      /\ t \in {"eslint_security", "npm_audit"} =>
                            /\ results'.critical_issues = results.critical_issues
                            /\ results'.high_issues = results.high_issues

\* beside a disabled tool, the enabled tools of the category that need no
\* result file have their gates recorded
OthersEvaluated(cat) ==
    (CategoryStep(cat) /\ CategoryEnabled(cat)) =>
        \A t \in CategoryTools[cat] :
            ~ToolEnabled(Tools(cat), t) =>
                \A t2 \in (CategoryTools[cat] \cap StubTools) \ {t} :
                    ToolEnabled(Tools(cat), t2) => NrRecorded(results', GateName[t2]) = 1

\* C30: a category with enabled: false records no gate and adds no counts,
\* whatever result files are present; a tool with enabled: false records no gate
\* and adds no counts, and the other tools of its category are still evaluated.
C30_Original ==
    [][\A cat \in Categories : DisabledAddsNothing(cat) /\ OthersEvaluated(cat)]_vars

\* the first half of C30 alone: what is disabled adds nothing
C30_DisabledAddsNothing ==
    [][\A cat \in Categories : DisabledAddsNothing(cat)]_vars

====
